---- MODULE Spec2Model ----
(***************************************************************************)
(* A model of the agent runtime core (packages/core/src/runtime.ts and the *)
(* knowledge module): the capability registry, the action resolver         *)
(* (processActions), the evaluator runner (evaluate), knowledge ingestion  *)
(* and retrieval, state composition, initialization, getSetting,           *)
(* preprocess and the ensure operations over the database adapter.         *)
(*                                                                         *)
(* Every asynchronous method is cut at its await points: one action of the *)
(* model is the synchronous run of the code between two suspensions.       *)
(***************************************************************************)
EXTENDS Integers, Sequences, FiniteSets, TLC

(***************************************************************************)
(* Bounds of the model.                                                    *)
(***************************************************************************)
\* longest actions / evaluators / providers / adapters list explored
MaxReg == 2
\* longest responses list handed to processActions
MaxResponses == 2
\* number of top-level knowledge calls explored in one behaviour
MaxCalls == 2
\* longest items list handed to processCharacterKnowledge
MaxItems == 2

(***************************************************************************)
(* Strings are sequences of one-character strings, so that toLowerCase,    *)
(* replace and includes are computed as String.prototype computes them.    *)
(***************************************************************************)
\* String.prototype.toLowerCase on one character of the alphabet in use
LowerChar(c) ==
    CASE c = "A" -> "a"
      [] c = "B" -> "b"
      [] c = "C" -> "c"
      [] OTHER -> c

ToLowerCase(s) == [i \in 1..Len(s) |-> LowerChar(s[i])]

\* s.replace("_", ""): a string pattern replaces the FIRST occurrence only
ReplaceUnderscore(s) ==
    IF \E i \in 1..Len(s) : s[i] = "_"
    THEN LET k == CHOOSE i \in 1..Len(s) :
                      /\ s[i] = "_"
                      /\ \A j \in 1..(i-1) : s[j] # "_"
         IN  SubSeq(s, 1, k-1) \o SubSeq(s, k+1, Len(s))
    ELSE s

\* s.includes(sub)
Includes(s, sub) ==
    \E i \in 0..(Len(s) - Len(sub)) : SubSeq(s, i+1, i+Len(sub)) = sub

\* x.toLowerCase().replace("_", "")
Normalize(s) == ReplaceUnderscore(ToLowerCase(s))

(***************************************************************************)
(* Capability descriptors the model draws its inputs from.                 *)
(***************************************************************************)
ActionNames == { <<"a", "_", "B">>, <<"c">> }

SimileLists == { <<>>, << <<"a", "b">> >>, << <<"d", "_", "_", "e">> >> }

\* an Action: name, similes, and whether it has a handler
Actions == [name : ActionNames, similes : SimileLists, hasHandler : BOOLEAN]

\* the actions registries are built from: actions matched by name or by a
\* simile, with and without a handler
ActionUniverse ==
    { a \in Actions :
          \/ a.name = <<"a", "_", "B">> /\ a.similes = <<>>
          \/ a.name = <<"c">> /\ a.similes = << <<"a", "b">> >>
          \/ a.name = <<"c">> /\ a.hasHandler }

EvaluatorNames == {"E1", "E2"}

\* an Evaluator: name, alwaysRun flag, and whether it has a handler
EvaluatorUniverse == [name : EvaluatorNames, alwaysRun : BOOLEAN, hasHandler : BOOLEAN]

ServiceTypes == {"speech", "browser"}

\* service / memory-manager objects are told apart by their identity
Instances == {"i1", "i2"}

Services == [serviceType : ServiceTypes, inst : Instances]

\* "" is a missing tableName
TableNames == {"", "facts"}

Managers == [tableName : TableNames, inst : Instances]

ProviderUniverse == {"p1"}

AdapterUniverse == {"d1"}

\* the empty Map
EmptyMap == [k \in {} |-> "i1"]

VARIABLES
    \* ---- capability registry (AgentRuntime fields)
    phase,            \* "new" before the constructor has run, "ready" after
    actions,          \* this.actions
    evaluators,       \* this.evaluators
    providers,        \* this.providers
    adapters,         \* this.adapters
    services,         \* this.services (Map serviceType -> Service)
    memoryManagers,   \* this.memoryManagers (Map tableName -> IMemoryManager)
    warned,           \* keys for which "already registered" was logged
    regRaised,        \* the last registration call threw
    \* ---- one processActions call
    paPc,             \* "idle", "loop" (at the for statement), "await", "done", "raised"
    paResponses,      \* the responses argument: the action label of each response
    paIdx,            \* the response the for loop is at
    paInFlight,       \* responses whose handler was invoked and has not settled
    paLog,            \* handler invocations, in the order they were started
    \* ---- one evaluate call
    evPc,             \* "idle", "validating", "generating", "loop", "await", "done", "raised"
    evDidRespond,     \* the didRespond argument
    evValidated,      \* evaluators (by index) whose validate was invoked
    evCandidates,     \* evaluatorsData: evaluators whose validate returned true
    evGenCalls,       \* number of generateText calls made
    evNames,          \* parseJsonArrayFromText(result): the names, or null
    evIdx,            \* the evaluator the execution loop is at
    evHandled,        \* evaluators whose handler was invoked, in order
    evReturned,       \* "none", "empty" (return []) or "names" (return evaluators)
    \* ---- knowledge ingestion
    fragments,        \* the records of the "fragments" partition (knowledgeManager)
    documents,        \* the records of the "documents" partition (documentsManager)
    kPc,              \* the await the call in progress is suspended on, or "idle"
    kCaller,          \* "set" for a direct knowledge.set, "pck" for processCharacterKnowledge
    kItems,           \* the items argument of processCharacterKnowledge
    kIdx,             \* the item its for loop is at
    kItem,            \* the KnowledgeItem knowledge.set is working on
    kCalls,           \* top-level calls made so far
    kRaised,          \* the last top-level call rejected
    kSetDone,         \* per id, the knowledge.set calls that resolved
    kIngested,        \* ids whose string ingestion (probe, then set) completed
    kRedundant,       \* store / embedding calls made for an id already ingested
    kGiven,           \* the item as the knowledge.set call in progress (or the last one) received it
    kLoaded,          \* the last loadContent call: its argument and its outcome
    \* ---- one composeState call, then updateRecentMessageState calls
    csStore,          \* the room's messages as the store returns them
    csPc,             \* the await composeState is suspended on, "idle", "done" or "raised"
    csMessage,        \* the attachments of the message argument
    csRecent,         \* the recentMessagesData array
    csAttachments,    \* allAttachments
    csDraft,          \* initialState, the draft snapshot
    csOutcomes,       \* what each validate and the providers step settled with
    csState,          \* the snapshot composeState returned
    urPc,             \* "idle", "retrieve", "done" or "raised"
    urInput,          \* the state argument of updateRecentMessageState, as passed
    urOut,            \* the snapshot updateRecentMessageState returned
    \* ---- one knowledge.get call
    kgPc,             \* "idle", "embed", "search", "done" or "raised"
    kgArgs,           \* the arguments: the message text and the options given
    kgOutcomes,       \* what the embedding lookup and the search settled with
    kgSearches,       \* the arguments of the similarity searches made
    kgResult,         \* the list get resolved to
    \* ---- initialize, directory ingestion and loadKnowledge
    nodeEnv,          \* process.env.NODE_ENV === "node"
    character,        \* this.character (its name, topics, adjectives and lore)
    roomActors,       \* the actors getActorDetails finds in the room
    inPc,             \* the await initialize is suspended on, "idle", "done" or "raised"
    inEntries,        \* this.services.entries(): the service types in Map order
    inIdx,            \* the entry its for loop is at
    inStarted,        \* the service types whose initialize has been called
    inFailed,         \* a service's initialize threw
    inKnowledge,      \* this.character.knowledge
    inDirIdx,         \* the directory item the directory loop is at
    dPc,              \* "idle", "glob", "batch", "done" or "raised"
    dDir,             \* dirConfig.directory
    dFiles,           \* the files glob returned
    dStart,           \* i, the offset of the batch in progress
    dFile,            \* per file, where its callback is and whether an embedding was found
    lkPc,             \* "idle", "set" (awaiting knowledge.set), "done" or "raised"
    lkSources,        \* this.character.knowledge.sources
    lkIdx,            \* the source its for loop is at
    lkSets,           \* the sources knowledge.set has been called for
    \* ---- getSetting
    gsSecrets,        \* this.character.settings.secrets
    gsSettings,       \* this.character.settings
    gsProcess,        \* settings, the process settings
    gsKey,            \* the key of the last getSetting call
    gsResult,         \* what the last getSetting call returned
    \* ---- preprocess
    ppInput,          \* the argument of the last preprocess call
    ppResult,         \* what it returned, or that it threw
    ppPrev,           \* the call before it: its argument and its result
    \* ---- the database and the ensure operations
    dbAccounts,       \* the ids getAccountById finds
    dbRooms,          \* the ids getRoom finds
    dbParticipants,   \* the (user, room) pairs of the participants table
    dbWrites,         \* per createAccount / createRoom / addParticipant call, how often it was issued
    enTasks,          \* per ensure call, its arguments and the await it is suspended on
    enConn,           \* per ensureConnection call, its arguments and the Promise.all it is suspended on
    idPc              \* initializeDatabase: "idle" or "called"

regVars == <<phase, actions, evaluators, providers, adapters, services,
             memoryManagers, warned, regRaised>>

paVars == <<paPc, paResponses, paIdx, paInFlight, paLog>>

evVars == <<evPc, evDidRespond, evValidated, evCandidates, evGenCalls, evNames,
            evIdx, evHandled, evReturned>>

kVars == <<fragments, documents, kPc, kCaller, kItems, kIdx, kItem, kCalls,
           kRaised, kSetDone, kIngested, kRedundant, kGiven, kLoaded>>

csVars == <<csStore, csPc, csMessage, csRecent, csAttachments, csDraft,
            csOutcomes, csState, urPc, urInput, urOut>>

kgVars == <<kgPc, kgArgs, kgOutcomes, kgSearches, kgResult>>

inVars == <<inPc, inEntries, inIdx, inStarted, inFailed, inKnowledge, inDirIdx>>

dVars == <<dPc, dDir, dFiles, dStart, dFile>>

lkVars == <<lkPc, lkSources, lkIdx, lkSets>>

envVars == <<nodeEnv, character, roomActors>>

gsVars == <<gsSecrets, gsSettings, gsProcess, gsKey, gsResult>>

ppVars == <<ppInput, ppResult, ppPrev>>

dbVars == <<dbAccounts, dbRooms, dbParticipants, dbWrites, enTasks, enConn,
            idPc>>

sysVars == <<gsVars, ppVars, dbVars>>

bootVars == <<envVars, inVars, dVars, lkVars, sysVars>>

vars == <<regVars, paVars, evVars, kVars, csVars, kgVars, bootVars>>

(***************************************************************************)
(* Registration (runtime.ts 183-225, 773-800).                             *)
(***************************************************************************)
\* registerAction: this.actions.push(action)
RegisterActionOp(acts, a) == Append(acts, a)

\* registerEvaluator: this.evaluators.push(evaluator)
RegisterEvaluatorOp(evs, e) == Append(evs, e)

\* registerContextProvider: this.providers.push(provider)
RegisterProviderOp(ps, p) == Append(ps, p)

\* registerAdapter: this.adapters.push(adapter)
RegisterAdapterOp(ads, d) == Append(ads, d)

\* a buggy registerService that binds the key again
RegisterServiceOp_overwrite(svcs, s) ==
    [k \in (DOMAIN svcs) \cup {s.serviceType} |->
        IF k = s.serviceType THEN s.inst ELSE svcs[k]]

\* registerService: skip when the serviceType is present, else Map.set
RegisterServiceOp(svcs, s) ==
    IF s.serviceType \in DOMAIN svcs
    THEN svcs
    ELSE svcs @@ (s.serviceType :> s.inst)

\* registerMemoryManager (for a manager that has a tableName): skip when the
\* tableName is present, else Map.set
RegisterMemoryManagerOp(mms, m) ==
    IF m.tableName \in DOMAIN mms
    THEN mms
    ELSE mms @@ (m.tableName :> m.inst)

\* the keys a registration of s / m warns about
ServiceWarning(svcs, s) ==
    IF s.serviceType \in DOMAIN svcs THEN {<<"service", s.serviceType>>} ELSE {}

ManagerWarning(mms, m) ==
    IF m.tableName \in DOMAIN mms THEN {<<"manager", m.tableName>>} ELSE {}

(***************************************************************************)
(* The constructor (runtime.ts 245-437).                                   *)
(***************************************************************************)
\* the inputs registrations are drawn from
ActA1 == [name |-> <<"a", "b">>, similes |-> <<>>, hasHandler |-> TRUE]

\* another action object that carries the same name as ActA1
ActA1b == [name |-> <<"a", "b">>, similes |-> << <<"a", "b">> >>, hasHandler |-> TRUE]

RegActionInputs == {ActA1, ActA1b}

EvE1 == [name |-> "E1", alwaysRun |-> FALSE, hasHandler |-> TRUE]

\* another evaluator object that carries the same name as EvE1
EvE1b == [name |-> "E1", alwaysRun |-> TRUE, hasHandler |-> TRUE]

RegEvaluatorInputs == {EvE1b}

\* a Plugin: the capabilities it declares
PluginP1 ==
    [actions |-> <<ActA1>>, evaluators |-> <<EvE1>>,
     services |-> << [serviceType |-> "speech", inst |-> "i1"] >>,
     providers |-> <<"p1">>, adapters |-> <<"d1">>]

\* a plugin that overlaps PluginP1
PluginP2 ==
    [actions |-> <<ActA1b>>, evaluators |-> <<>>,
     services |-> << [serviceType |-> "speech", inst |-> "i2"] >>,
     providers |-> <<>>, adapters |-> <<>>]

\* the constructor's opts (character.plugins is opts.character.plugins)
ConstructorOpts ==
    [characterPlugins : {<<>>, <<PluginP1>>},
     plugins          : {<<>>, <<PluginP1>>, <<PluginP2>>},
     actions          : {<<>>, <<ActA1>>},
     evaluators       : {<<>>, <<EvE1b>>},
     providers        : {<<>>},
     services         : {<<>>, << [serviceType |-> "browser", inst |-> "i1"],
                                  [serviceType |-> "browser", inst |-> "i2"] >>},
     managers         : {<<>>, << [tableName |-> "facts", inst |-> "i1"],
                                  [tableName |-> "facts", inst |-> "i2"] >>}]

RECURSIVE RegisterActions(_, _)
\* xs.forEach((action) => this.registerAction(action))
RegisterActions(acts, xs) ==
    IF xs = <<>> THEN acts
    ELSE RegisterActions(RegisterActionOp(acts, Head(xs)), Tail(xs))

RECURSIVE RegisterEvaluators(_, _)
\* xs.forEach((evaluator) => this.registerEvaluator(evaluator))
RegisterEvaluators(evs, xs) ==
    IF xs = <<>> THEN evs
    ELSE RegisterEvaluators(RegisterEvaluatorOp(evs, Head(xs)), Tail(xs))

RECURSIVE RegisterProviders(_, _)
\* xs.forEach((provider) => this.registerContextProvider(provider))
RegisterProviders(ps, xs) ==
    IF xs = <<>> THEN ps
    ELSE RegisterProviders(RegisterProviderOp(ps, Head(xs)), Tail(xs))

RECURSIVE RegisterAdapters(_, _)
\* xs.forEach((adapter) => this.registerAdapter(adapter))
RegisterAdapters(ads, xs) ==
    IF xs = <<>> THEN ads
    ELSE RegisterAdapters(RegisterAdapterOp(ads, Head(xs)), Tail(xs))

RECURSIVE RegisterServices(_, _)
\* xs.forEach((service) => this.registerService(service)); the state is the
\* pair of the Map and the warnings logged so far
RegisterServices(st, xs) ==
    IF xs = <<>> THEN st
    ELSE RegisterServices(
             [map  |-> RegisterServiceOp(st.map, Head(xs)),
              warn |-> st.warn \cup ServiceWarning(st.map, Head(xs))],
             Tail(xs))

RECURSIVE RegisterManagers(_, _)
\* xs.forEach((manager) => this.registerMemoryManager(manager))
RegisterManagers(st, xs) ==
    IF xs = <<>> THEN st
    ELSE RegisterManagers(
             [map  |-> RegisterMemoryManagerOp(st.map, Head(xs)),
              warn |-> st.warn \cup ManagerWarning(st.map, Head(xs))],
             Tail(xs))

\* the body of this.plugins.forEach((plugin) => ...) for one plugin
RegisterPlugin(reg, plugin) ==
    LET svc == RegisterServices([map |-> reg.services, warn |-> reg.warn],
                                plugin.services)
    IN  [actions    |-> RegisterActions(reg.actions, plugin.actions),
         evaluators |-> RegisterEvaluators(reg.evaluators, plugin.evaluators),
         services   |-> svc.map,
         warn       |-> svc.warn,
         providers  |-> RegisterProviders(reg.providers, plugin.providers),
         adapters   |-> RegisterAdapters(reg.adapters, plugin.adapters)]

RECURSIVE RegisterPlugins(_, _)
\* this.plugins.forEach(...)
RegisterPlugins(reg, ps) ==
    IF ps = <<>> THEN reg
    ELSE RegisterPlugins(RegisterPlugin(reg, Head(ps)), Tail(ps))

\* the registry the constructor leaves, in the order of its statements:
\* opts.managers, opts.services, character plugins then opts plugins,
\* opts.actions, opts.providers, opts.evaluators
ConstructRegistry(opts) ==
    LET mgr  == RegisterManagers([map |-> EmptyMap, warn |-> {}], opts.managers)
        svc  == RegisterServices([map |-> EmptyMap, warn |-> mgr.warn], opts.services)
        reg0 == [actions |-> <<>>, evaluators |-> <<>>, services |-> svc.map,
                 warn |-> svc.warn, providers |-> <<>>, adapters |-> <<>>]
        reg1 == RegisterPlugins(reg0, opts.characterPlugins \o opts.plugins)
    IN  [actions        |-> RegisterActions(reg1.actions, opts.actions),
         evaluators     |-> RegisterEvaluators(reg1.evaluators, opts.evaluators),
         providers      |-> RegisterProviders(reg1.providers, opts.providers),
         adapters       |-> reg1.adapters,
         services       |-> reg1.services,
         memoryManagers |-> mgr.map,
         warn           |-> reg1.warn]

\* new AgentRuntime(opts), for opts the constructor accepts
Constructor(opts) ==
    /\ phase = "new"
    /\ LET r == ConstructRegistry(opts)
       IN  /\ actions' = r.actions
           /\ evaluators' = r.evaluators
           /\ providers' = r.providers
           /\ adapters' = r.adapters
           /\ services' = r.services
           /\ memoryManagers' = r.memoryManagers
           /\ warned' = r.warn
    /\ phase' = "ready"
    /\ regRaised' = FALSE
    /\ UNCHANGED paVars
    /\ UNCHANGED evVars
    /\ UNCHANGED kVars
    /\ UNCHANGED csVars
    /\ UNCHANGED kgVars
    /\ UNCHANGED bootVars

\* runtime.registerAction(a)
RegisterAction(a) ==
    /\ phase = "ready"
    /\ Len(actions) < MaxReg
    /\ actions' = RegisterActionOp(actions, a)
    /\ regRaised' = FALSE
    /\ UNCHANGED <<phase, evaluators, providers, adapters, services,
                   memoryManagers, warned>>
    /\ UNCHANGED paVars
    /\ UNCHANGED evVars
    /\ UNCHANGED kVars
    /\ UNCHANGED csVars
    /\ UNCHANGED kgVars
    /\ UNCHANGED bootVars

\* runtime.registerEvaluator(e)
RegisterEvaluator(e) ==
    /\ phase = "ready"
    /\ Len(evaluators) < MaxReg
    /\ evaluators' = RegisterEvaluatorOp(evaluators, e)
    /\ regRaised' = FALSE
    /\ UNCHANGED <<phase, actions, providers, adapters, services,
                   memoryManagers, warned>>
    /\ UNCHANGED paVars
    /\ UNCHANGED evVars
    /\ UNCHANGED kVars
    /\ UNCHANGED csVars
    /\ UNCHANGED kgVars
    /\ UNCHANGED bootVars

\* runtime.registerContextProvider(p)
RegisterContextProvider(p) ==
    /\ phase = "ready"
    /\ Len(providers) < MaxReg
    /\ providers' = RegisterProviderOp(providers, p)
    /\ regRaised' = FALSE
    /\ UNCHANGED <<phase, actions, evaluators, adapters, services,
                   memoryManagers, warned>>
    /\ UNCHANGED paVars
    /\ UNCHANGED evVars
    /\ UNCHANGED kVars
    /\ UNCHANGED csVars
    /\ UNCHANGED kgVars
    /\ UNCHANGED bootVars

\* runtime.registerAdapter(d)
RegisterAdapter(d) ==
    /\ phase = "ready"
    /\ Len(adapters) < MaxReg
    /\ adapters' = RegisterAdapterOp(adapters, d)
    /\ regRaised' = FALSE
    /\ UNCHANGED <<phase, actions, evaluators, providers, services,
                   memoryManagers, warned>>
    /\ UNCHANGED paVars
    /\ UNCHANGED evVars
    /\ UNCHANGED kVars
    /\ UNCHANGED csVars
    /\ UNCHANGED kgVars
    /\ UNCHANGED bootVars

\* runtime.registerService(s)
RegisterService(s) ==
    /\ phase = "ready"
    /\ services' = RegisterServiceOp(services, s)
    /\ warned' = warned \cup ServiceWarning(services, s)
    /\ regRaised' = FALSE
    /\ UNCHANGED <<phase, actions, evaluators, providers, adapters,
                   memoryManagers>>
    /\ UNCHANGED paVars
    /\ UNCHANGED evVars
    /\ UNCHANGED kVars
    /\ UNCHANGED csVars
    /\ UNCHANGED kgVars
    /\ UNCHANGED bootVars

\* runtime.registerMemoryManager(m): throws when the manager has no tableName
RegisterMemoryManager(m) ==
    /\ phase = "ready"
    /\ IF m.tableName = ""
       THEN /\ regRaised' = TRUE
            /\ UNCHANGED <<memoryManagers, warned>>
       ELSE /\ memoryManagers' = RegisterMemoryManagerOp(memoryManagers, m)
            /\ warned' = warned \cup ManagerWarning(memoryManagers, m)
            /\ regRaised' = FALSE
    /\ UNCHANGED <<phase, actions, evaluators, providers, adapters, services>>
    /\ UNCHANGED paVars
    /\ UNCHANGED evVars
    /\ UNCHANGED kVars
    /\ UNCHANGED csVars
    /\ UNCHANGED kgVars
    /\ UNCHANGED bootVars

\* no processActions call has been made
PAIdle ==
    /\ paPc = "idle"
    /\ paResponses = <<>>
    /\ paIdx = 0
    /\ paInFlight = {}
    /\ paLog = <<>>

\* the value of parseJsonArrayFromText when the text holds no array
NullNames == [null |-> TRUE, names |-> {}]

\* no evaluate call has been made
EvIdle ==
    /\ evPc = "idle"
    /\ evDidRespond = FALSE
    /\ evValidated = {}
    /\ evCandidates = {}
    /\ evGenCalls = 0
    /\ evNames = NullNames
    /\ evIdx = 0
    /\ evHandled = <<>>
    /\ evReturned = "none"

\* knowledge texts, files and ids
Texts == {"t1", "t2"}

\* the paths knowledge items refer to
Paths == {"f1", "missing"}

\* the files that exist, with their content
FileText == [p \in {"f1"} |-> "t1"]

\* uuid.ts stringToUuid: a deterministic, collision-free digest of the text
stringToUuid(text) == <<"uuid", text>>

\* the id of a knowledge item that is declared by reference to a file
DocId(path) == <<"doc", path>>

\* the sources of the largest knowledge configuration
MaxSources == 2

\* v4(): the n-th fresh random id
V4(n) == <<"v4", ToString(n)>>

KnowledgeIds ==
    {stringToUuid(t) : t \in Texts} \cup {DocId(p) : p \in Paths}
        \cup {V4(n) : n \in 1..MaxSources}

\* no KnowledgeItem
NoItem == [id |-> <<"none">>, text |-> "", source |-> "", embedded |-> FALSE]

\* what loadContent throws with the given message
LoadError(message) ==
    [ok |-> FALSE, text |-> "", source |-> "", type |-> "", error |-> message]

\* a loader that prefers the path over the content
LoadContent_pathFirst(source) ==
    IF source.path # "" /\ source.path \in DOMAIN FileText
    THEN [ok |-> TRUE, text |-> FileText[source.path], source |-> source.path,
          type |-> "static", error |-> ""]
    ELSE IF source.content # ""
    THEN [ok |-> TRUE, text |-> source.content, source |-> "inline",
          type |-> "static", error |-> ""]
    ELSE LoadError("Knowledge file not found")

\* NodeKnowledgeLoader.loadContent(source): the inline content when there
\* is one, else the text of the file at source.path
LoadContent(source) ==
    IF source.content # ""
    THEN [ok |-> TRUE, text |-> source.content, source |-> "inline",
          type |-> "static", error |-> ""]
    ELSE IF source.path = ""
    THEN LoadError("Either path or content must be provided")
    ELSE IF source.path \notin DOMAIN FileText
    THEN LoadError("Knowledge file not found")
    ELSE [ok |-> TRUE, text |-> FileText[source.path], source |-> source.path,
          type |-> "static", error |-> ""]

\* loadContent has not been called
NoLoad ==
    [called |-> FALSE, source |-> [path |-> "", content |-> ""],
     result |-> LoadError("")]

\* no knowledge call is in progress
KIdle ==
    /\ kPc = "idle"
    /\ kCaller = "set"
    /\ kItems = <<>>
    /\ kIdx = 0
    /\ kItem = NoItem
    /\ kCalls = 0
    /\ kRaised = FALSE
    /\ kSetDone = [id \in KnowledgeIds |-> 0]
    /\ kIngested = {}
    /\ kRedundant = {}
    /\ kGiven = NoItem
    /\ kLoaded = NoLoad

\* both knowledge partitions are empty
KEmptyStore ==
    /\ fragments = <<>>
    /\ documents = <<>>

\* no State
NoState == [none |-> TRUE]

\* no message argument
NoMessage == [attachments |-> <<>>, additionalKeys |-> <<>>]

\* no validate and no provider has settled
NoOutcomes == [actions |-> <<>>, evaluators |-> <<>>, providers |-> "none"]

\* no composeState and no updateRecentMessageState call has been made, and
\* the room holds no message
CSIdle ==
    /\ csStore = <<>>
    /\ csPc = "idle"
    /\ csMessage = NoMessage
    /\ csRecent = <<>>
    /\ csAttachments = <<>>
    /\ csDraft = NoState
    /\ csOutcomes = NoOutcomes
    /\ csState = NoState
    /\ urPc = "idle"
    /\ urInput = NoState
    /\ urOut = NoState

\* the value undefined of a numeric option
Undefined == -1

\* no options argument
NoOptions ==
    [given |-> FALSE, roomId |-> "undefined", match_threshold |-> Undefined,
     count |-> Undefined, unique |-> "undefined", useAgentFilter |-> FALSE]

\* no knowledge.get call has been made
KGIdle ==
    /\ kgPc = "idle"
    /\ kgArgs = [text |-> "", agentId |-> "", options |-> NoOptions]
    /\ kgOutcomes = [embed |-> "none", search |-> "none"]
    /\ kgSearches = <<>>
    /\ kgResult = <<>>

\* character.knowledge: absent, the array format (directory, path and
\* string items) or the format with sources
NoKnowledge == [format |-> "none", items |-> <<>>]

\* initialize has not been called
InIdle ==
    /\ inPc = "idle"
    /\ inEntries = <<>>
    /\ inIdx = 0
    /\ inStarted = <<>>
    /\ inFailed = FALSE
    /\ inKnowledge = NoKnowledge
    /\ inDirIdx = 0

\* no directory ingestion has been started
DirIdle ==
    /\ dPc = "idle"
    /\ dDir = <<>>
    /\ dFiles = <<>>
    /\ dStart = 0
    /\ dFile = <<>>

\* loadKnowledge has not been called
LKIdle ==
    /\ lkPc = "idle"
    /\ lkSources = <<>>
    /\ lkIdx = 0
    /\ lkSets = <<>>

\* message.userId, the sender
Sender == "u1"

\* a character with one topic, one adjective and one bit of lore
FullCharacter ==
    [name |-> "Eliza", topics |-> <<"tp1">>, adjectives |-> <<"adj1">>,
     lore |-> <<"lore1">>]

\* the characters a runtime is constructed with: without the optional
\* lists, with one entry in each, and with two topics and adjectives
Characters ==
    { [name |-> "Eliza", topics |-> <<>>, adjectives |-> <<>>, lore |-> <<>>],
      FullCharacter,
      [name |-> "Eliza", topics |-> <<"tp1", "tp2">>,
       adjectives |-> <<"adj1", "adj2">>, lore |-> <<"lore1">>] }

\* the actors of a room: the sender and the agent, the agent alone, nobody
ActorLists ==
    { << [id |-> Sender, name |-> "Ann"], [id |-> "agent", name |-> "Eliza"] >>,
      << [id |-> "agent", name |-> "Eliza"] >>,
      <<>> }

\* a full character in a room that holds the sender and the agent
DefaultEnv ==
    /\ character = FullCharacter
    /\ roomActors = << [id |-> Sender, name |-> "Ann"],
                       [id |-> "agent", name |-> "Eliza"] >>

\* a node process in which no initialization step has been taken
\* the agent, the users and the rooms of the database
AgentId == "agent"

Users == {AgentId, "u1"}

RoomIds == {AgentId, "r1", "r2"}

\* the ensureConnection calls that may be in flight together
ConnCalls == {"c1", "c2"}

\* the ensure calls: those initializeDatabase makes, those of each
\* ensureConnection call, and one ensureParticipantExists call of a client
TaskIds ==
    ({"db"} \X {"room", "user", "part"})
    \cup (ConnCalls \X {"agentUser", "user", "room", "userPart", "agentPart"})
    \cup {<<"client", "part">>}

NoTask == [op |-> "none", user |-> "", room |-> "", pc |-> "none"]

NoConn == [pc |-> "idle", user |-> "", room |-> ""]

\* the calls that write to the database
Writes ==
    {<<"createAccount", u, "">> : u \in Users}
    \cup {<<"createRoom", "", r>> : r \in RoomIds}
    \cup {<<"addParticipant", u, r>> : u \in Users, r \in RoomIds}

\* a setting no layer holds, and the result of no call
Unset == [set |-> FALSE, value |-> ""]

SettingKeys == {"k1", "k2"}

NoInput == [type |-> "none", chars |-> <<>>]

NoOutput == [threw |-> FALSE, chars |-> <<>>]

GSIdle ==
    /\ gsSecrets = [k \in SettingKeys |-> Unset]
    /\ gsSettings = [k \in SettingKeys |-> Unset]
    /\ gsProcess = [k \in SettingKeys |-> Unset]
    /\ gsKey = ""
    /\ gsResult = Unset

PPIdle ==
    /\ ppInput = NoInput
    /\ ppResult = NoOutput
    /\ ppPrev = [input |-> NoInput, result |-> NoOutput]

\* no ensure call is in flight and none was made
EnsureIdle ==
    /\ dbWrites = [w \in Writes |-> 0]
    /\ enTasks = [t \in TaskIds |-> NoTask]
    /\ enConn = [c \in ConnCalls |-> NoConn]
    /\ idPc = "idle"

\* a database without accounts, rooms and participants
DbEmpty ==
    /\ dbAccounts = {}
    /\ dbRooms = {}
    /\ dbParticipants = {}

SysIdle == GSIdle /\ PPIdle /\ EnsureIdle /\ DbEmpty

BootIdle == nodeEnv = TRUE /\ DefaultEnv /\ InIdle /\ DirIdle /\ LKIdle /\ SysIdle

RegInit ==
    /\ phase = "new"
    /\ actions = <<>>
    /\ evaluators = <<>>
    /\ providers = <<>>
    /\ adapters = <<>>
    /\ services = EmptyMap
    /\ memoryManagers = EmptyMap
    /\ warned = {}
    /\ regRaised = FALSE

Init ==
    RegInit /\ PAIdle /\ EvIdle /\ KIdle /\ KEmptyStore /\ CSIdle /\ KGIdle /\ BootIdle

Next ==
    \/ \E opts \in ConstructorOpts : Constructor(opts)
    \/ \E a \in RegActionInputs : RegisterAction(a)
    \/ \E e \in RegEvaluatorInputs : RegisterEvaluator(e)
    \/ \E p \in ProviderUniverse : RegisterContextProvider(p)
    \/ \E d \in AdapterUniverse : RegisterAdapter(d)
    \/ \E s \in Services : RegisterService(s)
    \/ \E m \in Managers : RegisterMemoryManager(m)

\* the capability registry: construction, then any registrations
Spec == Init /\ [][Next]_vars

(***************************************************************************)
(* processActions (runtime.ts 807-881).                                    *)
(***************************************************************************)
\* the action labels responses carry; <<>> is a response without a label
Labels == { <<>>, <<"A", "B">>, <<"d", "_", "e">>, <<"z">> }

RECURSIVE SeqsUpTo(_, _)
\* the sequences over S of length at most n
SeqsUpTo(S, n) ==
    IF n = 0 THEN { <<>> }
    ELSE LET shorter == SeqsUpTo(S, n - 1)
         IN  shorter \cup { Append(q, x) : q \in shorter, x \in S }

\* a.name.toLowerCase().replace("_", "").includes(normalizedAction) ||
\* normalizedAction.includes(a.name.toLowerCase().replace("_", ""))
NameMatch(a, norm) ==
    \/ Includes(Normalize(a.name), norm)
    \/ Includes(norm, Normalize(a.name))

\* the predicate of _action.similes.find
SimileMatch(simile, norm) ==
    \/ Includes(Normalize(simile), norm)
    \/ Includes(norm, Normalize(simile))

\* if (simileAction): find returned a simile, and it is not the empty string
SimileHit(a, norm) ==
    /\ \E j \in 1..Len(a.similes) : SimileMatch(a.similes[j], norm)
    /\ LET j == CHOOSE j \in 1..Len(a.similes) :
                    /\ SimileMatch(a.similes[j], norm)
                    /\ \A h \in 1..(j-1) : ~SimileMatch(a.similes[h], norm)
       IN  a.similes[j] # <<>>

\* a buggy lookup by name that takes the last match (findLast)
FindByName_last(acts, norm) ==
    IF \E i \in 1..Len(acts) : NameMatch(acts[i], norm)
    THEN CHOOSE i \in 1..Len(acts) :
             /\ NameMatch(acts[i], norm)
             /\ \A h \in (i+1)..Len(acts) : ~NameMatch(acts[h], norm)
    ELSE 0

\* this.actions.find by name: the index of the first action whose name
\* matches, 0 when find returns undefined
FindByName(acts, norm) ==
    IF \E i \in 1..Len(acts) : NameMatch(acts[i], norm)
    THEN CHOOSE i \in 1..Len(acts) :
             /\ NameMatch(acts[i], norm)
             /\ \A h \in 1..(i-1) : ~NameMatch(acts[h], norm)
    ELSE 0

\* for (const _action of this.actions) ... break: the index of the first
\* action one of whose similes matches, 0 when the loop finds none
FindBySimile(acts, norm) ==
    IF \E i \in 1..Len(acts) : SimileHit(acts[i], norm)
    THEN CHOOSE i \in 1..Len(acts) :
             /\ SimileHit(acts[i], norm)
             /\ \A h \in 1..(i-1) : ~SimileHit(acts[h], norm)
    ELSE 0

\* a buggy resolver that tests name and similes of each action in one pass
ResolveAction_onePass(acts, label) ==
    LET norm == Normalize(label)
    IN  IF \E i \in 1..Len(acts) :
               NameMatch(acts[i], norm) \/ SimileHit(acts[i], norm)
        THEN CHOOSE i \in 1..Len(acts) :
                 /\ NameMatch(acts[i], norm) \/ SimileHit(acts[i], norm)
                 /\ \A h \in 1..(i-1) :
                        ~(NameMatch(acts[h], norm) \/ SimileHit(acts[h], norm))
        ELSE 0

\* the action a label resolves to (its index, 0 for none): this.actions.find
\* by name, and the similes loop only if (!action)
ResolveAction(acts, label) ==
    LET norm == Normalize(label)
    IN  IF FindByName(acts, norm) # 0
        THEN FindByName(acts, norm)
        ELSE FindBySimile(acts, norm)

\* runtime.processActions(message, responses, state, callback)
PACall(responses) ==
    /\ phase = "ready"
    /\ paPc = "idle"
    /\ paResponses' = responses
    /\ paIdx' = 1
    /\ paPc' = "loop"
    /\ UNCHANGED <<paInFlight, paLog>>
    /\ UNCHANGED regVars
    /\ UNCHANGED evVars
    /\ UNCHANGED kVars
    /\ UNCHANGED csVars
    /\ UNCHANGED kgVars
    /\ UNCHANGED bootVars

\* a buggy invocation that does not await the handler
PAInvoke_noAwait(k) ==
    /\ paInFlight' = paInFlight \cup {paIdx}
    /\ paLog' = Append(paLog, [resp |-> paIdx, act |-> k, status |-> "running"])
    /\ paPc' = "loop"
    /\ paIdx' = paIdx + 1

\* await action.handler(this, message, state, {}, callback): the handler of
\* actions[k] is started and processActions is suspended on it
PAInvoke(k) ==
    /\ paInFlight' = paInFlight \cup {paIdx}
    /\ paLog' = Append(paLog, [resp |-> paIdx, act |-> k, status |-> "running"])
    /\ paPc' = "await"
    /\ paIdx' = paIdx

\* a buggy skip that raises instead of going on
PAContinue_raise ==
    /\ paIdx' = paIdx
    /\ paPc' = "raised"
    /\ UNCHANGED <<paInFlight, paLog>>

\* continue: on to the next response
PAContinue ==
    /\ paIdx' = paIdx + 1
    /\ paPc' = "loop"
    /\ UNCHANGED <<paInFlight, paLog>>

\* one run of the for body, from its head to a continue or to the await
PAIterate ==
    /\ paPc = "loop"
    /\ paIdx <= Len(paResponses)
    /\ LET label == paResponses[paIdx]
           k == ResolveAction(actions, label)
       IN  IF label = <<>> THEN PAContinue
           ELSE IF k = 0 THEN PAContinue
           ELSE IF ~actions[k].hasHandler THEN PAContinue
           ELSE PAInvoke(k)
    /\ UNCHANGED paResponses
    /\ UNCHANGED regVars
    /\ UNCHANGED evVars
    /\ UNCHANGED kVars
    /\ UNCHANGED csVars
    /\ UNCHANGED kgVars
    /\ UNCHANGED bootVars

\* the log with the entry of response i marked as settled
Settled(log, i, outcome) ==
    [j \in 1..Len(log) |->
        IF log[j].resp = i /\ log[j].status = "running"
        THEN [log[j] EXCEPT !.status = outcome]
        ELSE log[j]]

\* a buggy catch that lets the error out of processActions
PAAfterHandler_rethrow(outcome) ==
    IF outcome = "threw"
    THEN paPc' = "raised" /\ paIdx' = paIdx
    ELSE paPc' = "loop" /\ paIdx' = paIdx + 1

\* what follows the awaited handler: the try block ends, or catch (error)
\* logs the error; either way the loop goes on to the next response
PAAfterHandler(outcome) ==
    /\ paPc' = "loop"
    /\ paIdx' = paIdx + 1

\* the handler of response i settles: it returns, or it throws / rejects
PAHandlerSettle(i, outcome) ==
    /\ i \in paInFlight
    /\ paInFlight' = paInFlight \ {i}
    /\ paLog' = Settled(paLog, i, outcome)
    /\ IF paPc = "await" /\ i = paIdx
       THEN PAAfterHandler(outcome)
       ELSE UNCHANGED <<paPc, paIdx>>
    /\ UNCHANGED paResponses
    /\ UNCHANGED regVars
    /\ UNCHANGED evVars
    /\ UNCHANGED kVars
    /\ UNCHANGED csVars
    /\ UNCHANGED kgVars
    /\ UNCHANGED bootVars

\* the for loop is exhausted: processActions resolves
PAReturn ==
    /\ paPc = "loop"
    /\ paIdx > Len(paResponses)
    /\ paPc' = "done"
    /\ UNCHANGED <<paResponses, paIdx, paInFlight, paLog>>
    /\ UNCHANGED regVars
    /\ UNCHANGED evVars
    /\ UNCHANGED kVars
    /\ UNCHANGED csVars
    /\ UNCHANGED kgVars
    /\ UNCHANGED bootVars

\* a constructed runtime whose actions list is any list of registered actions
InitActions ==
    /\ phase = "ready"
    /\ actions \in SeqsUpTo(ActionUniverse, MaxReg)
    /\ evaluators = <<>>
    /\ providers = <<>>
    /\ adapters = <<>>
    /\ services = EmptyMap
    /\ memoryManagers = EmptyMap
    /\ warned = {}
    /\ regRaised = FALSE
    /\ PAIdle
    /\ EvIdle
    /\ KIdle
    /\ CSIdle
    /\ KGIdle
    /\ BootIdle
    /\ KEmptyStore

NextActions ==
    \/ \E responses \in SeqsUpTo(Labels, MaxResponses) : PACall(responses)
    \/ PAIterate
    \/ \E i \in 1..MaxResponses + 1, outcome \in {"ok", "threw"} : PAHandlerSettle(i, outcome)
    \/ PAReturn

\* one processActions call against a fixed registry
SpecActions == InitActions /\ [][NextActions]_vars

\* actions that one label matches by name and another by a simile, one per
\* place the constructor registers actions from
CharacterAction(h) ==
    [name |-> <<"a", "b">>, similes |-> << <<"z">> >>, hasHandler |-> h]

PluginAction ==
    [name |-> <<"a", "_", "b">>, similes |-> << <<"z">> >>, hasHandler |-> TRUE]

OptionAction ==
    [name |-> <<"a", "b", "c">>, similes |-> << <<"z">> >>, hasHandler |-> TRUE]

\* a plugin that declares one action
ActionPlugin(a) ==
    [actions |-> <<a>>, evaluators |-> <<>>, services |-> <<>>, providers |-> <<>>,
     adapters |-> <<>>]

\* the constructor's opts with actions in character plugins, in
\* opts.plugins and in opts.actions
ResolveOpts ==
    [characterPlugins : {<<>>} \cup {<<ActionPlugin(CharacterAction(h))>> : h \in BOOLEAN},
     plugins          : {<<>>, <<ActionPlugin(PluginAction)>>},
     actions          : {<<>>, <<OptionAction>>},
     evaluators       : {<<>>},
     providers        : {<<>>},
     services         : {<<>>},
     managers         : {<<>>}]

NextResolve ==
    \/ \E opts \in ResolveOpts : Constructor(opts)
    \/ NextActions

\* the constructor, then one processActions call
SpecResolve == Init /\ [][NextResolve]_vars

(***************************************************************************)
(* evaluate (runtime.ts 891-954).                                          *)
(***************************************************************************)
\* a buggy gate that forgets alwaysRun
Gate_ignoreAlwaysRun(e, didRespond) ==
    /\ e.hasHandler
    /\ didRespond

\* the evaluator reaches evaluator.validate: it has a handler, and the turn
\* responded or the evaluator always runs
Gate(e, didRespond) ==
    /\ e.hasHandler
    /\ ~(~didRespond /\ ~e.alwaysRun)

\* a buggy check that never returns early
NoCandidates_never(cands) == FALSE

\* if (!evaluatorsData || evaluatorsData.length === 0) return []
NoCandidates(cands) == cands = {}

\* what the generation step may hand back: any list of names, or no list
GenResults ==
    {NullNames} \cup [null : {FALSE}, names : SUBSET EvaluatorNames]

\* runtime.evaluate(message, state, didRespond, callback): this.evaluators.map
\* runs every callback up to its first await, which invokes validate on each
\* evaluator that passes the gate
EvCall(didRespond) ==
    /\ phase = "ready"
    /\ evPc = "idle"
    /\ evDidRespond' = didRespond
    /\ evValidated' = {i \in 1..Len(evaluators) : Gate(evaluators[i], didRespond)}
    /\ evPc' = "validating"
    /\ UNCHANGED <<evCandidates, evGenCalls, evNames, evIdx, evHandled, evReturned>>
    /\ UNCHANGED <<regVars, paVars>>
    /\ UNCHANGED kVars
    /\ UNCHANGED csVars
    /\ UNCHANGED kgVars
    /\ UNCHANGED bootVars

\* await Promise.all(evaluatorPromises) settles: results gives what each
\* validate produced (TRUE, FALSE, or "throw" for a throw / rejection)
EvValidateSettle(results) ==
    /\ evPc = "validating"
    /\ IF \E i \in evValidated : results[i] = "throw"
       THEN /\ evPc' = "raised"
            /\ UNCHANGED <<evCandidates, evGenCalls, evReturned>>
       ELSE LET cands == {i \in evValidated : results[i] = "true"}
            IN  /\ evCandidates' = cands
                /\ IF NoCandidates(cands)
                   THEN /\ evReturned' = "empty"
                        /\ evPc' = "done"
                        /\ UNCHANGED evGenCalls
                   ELSE /\ evGenCalls' = evGenCalls + 1
                        /\ evPc' = "generating"
                        /\ UNCHANGED evReturned
    /\ UNCHANGED <<evDidRespond, evValidated, evNames, evIdx, evHandled>>
    /\ UNCHANGED <<regVars, paVars>>
    /\ UNCHANGED kVars
    /\ UNCHANGED csVars
    /\ UNCHANGED kgVars
    /\ UNCHANGED bootVars

\* await generateText(...) resolves and parseJsonArrayFromText yields names
EvGenerated(names) ==
    /\ evPc = "generating"
    /\ evNames' = names
    /\ evIdx' = 1
    /\ evPc' = "loop"
    /\ UNCHANGED <<evDidRespond, evValidated, evCandidates, evGenCalls, evHandled,
                   evReturned>>
    /\ UNCHANGED <<regVars, paVars>>
    /\ UNCHANGED kVars
    /\ UNCHANGED csVars
    /\ UNCHANGED kgVars
    /\ UNCHANGED bootVars

\* await generateText(...) rejects: evaluate rejects
EvGenerateFails ==
    /\ evPc = "generating"
    /\ evPc' = "raised"
    /\ UNCHANGED <<evDidRespond, evValidated, evCandidates, evGenCalls, evNames,
                   evIdx, evHandled, evReturned>>
    /\ UNCHANGED <<regVars, paVars>>
    /\ UNCHANGED kVars
    /\ UNCHANGED csVars
    /\ UNCHANGED kgVars
    /\ UNCHANGED bootVars

\* evaluators?.includes(evaluator.name)
NameSelected(names, e) == ~names.null /\ e.name \in names.names

\* one run of the body of for (const evaluator of this.evaluators)
EvIterate ==
    /\ evPc = "loop"
    /\ evIdx <= Len(evaluators)
    /\ IF NameSelected(evNames, evaluators[evIdx]) /\ evaluators[evIdx].hasHandler
       THEN /\ evHandled' = Append(evHandled, evIdx)
            /\ evPc' = "await"
            /\ UNCHANGED evIdx
       ELSE /\ evIdx' = evIdx + 1
            /\ UNCHANGED <<evPc, evHandled>>
    /\ UNCHANGED <<evDidRespond, evValidated, evCandidates, evGenCalls, evNames,
                   evReturned>>
    /\ UNCHANGED <<regVars, paVars>>
    /\ UNCHANGED kVars
    /\ UNCHANGED csVars
    /\ UNCHANGED kgVars
    /\ UNCHANGED bootVars

\* the awaited evaluator handler settles; nothing catches a handler that
\* throws, so evaluate rejects
EvHandlerSettle(outcome) ==
    /\ evPc = "await"
    /\ IF outcome = "threw"
       THEN evPc' = "raised" /\ UNCHANGED evIdx
       ELSE evPc' = "loop" /\ evIdx' = evIdx + 1
    /\ UNCHANGED <<evDidRespond, evValidated, evCandidates, evGenCalls, evNames,
                   evHandled, evReturned>>
    /\ UNCHANGED <<regVars, paVars>>
    /\ UNCHANGED kVars
    /\ UNCHANGED csVars
    /\ UNCHANGED kgVars
    /\ UNCHANGED bootVars

\* return evaluators
EvReturn ==
    /\ evPc = "loop"
    /\ evIdx > Len(evaluators)
    /\ evReturned' = "names"
    /\ evPc' = "done"
    /\ UNCHANGED <<evDidRespond, evValidated, evCandidates, evGenCalls, evNames,
                   evIdx, evHandled>>
    /\ UNCHANGED <<regVars, paVars>>
    /\ UNCHANGED kVars
    /\ UNCHANGED csVars
    /\ UNCHANGED kgVars
    /\ UNCHANGED bootVars

\* a constructed runtime whose evaluators list is any list of evaluators
InitEvaluate ==
    /\ phase = "ready"
    /\ actions = <<>>
    /\ evaluators \in SeqsUpTo(EvaluatorUniverse, MaxReg)
    /\ providers = <<>>
    /\ adapters = <<>>
    /\ services = EmptyMap
    /\ memoryManagers = EmptyMap
    /\ warned = {}
    /\ regRaised = FALSE
    /\ PAIdle
    /\ EvIdle
    /\ KIdle
    /\ CSIdle
    /\ KGIdle
    /\ BootIdle
    /\ KEmptyStore

NextEvaluate ==
    \/ \E didRespond \in BOOLEAN : EvCall(didRespond)
    \/ \E results \in [evValidated -> {"true", "false", "throw"}] : EvValidateSettle(results)
    \/ \E names \in GenResults : EvGenerated(names)
    \/ EvGenerateFails
    \/ EvIterate
    \/ \E outcome \in {"ok", "threw"} : EvHandlerSettle(outcome)
    \/ EvReturn

\* one evaluate call against a fixed registry
SpecEvaluate == InitEvaluate /\ [][NextEvaluate]_vars

(***************************************************************************)
(* The memory store behind a MemoryManager (memory.ts).  A partition is    *)
(* the list of its records in insertion order; ids are unique within it.   *)
(***************************************************************************)
\* manager.createMemory(rec): append-only, one record per id
CreateMemory(partition, rec) ==
    IF \E i \in 1..Len(partition) : partition[i].id = rec.id
    THEN partition
    ELSE Append(partition, rec)

\* manager.getMemoryById(id) finds a record of its own partition
HasMemory(partition, id) == \E i \in 1..Len(partition) : partition[i].id = id

(***************************************************************************)
(* knowledge.set (runtime.ts 1689-1729), processCharacterKnowledge         *)
(* (601-626) and the content loader.                                       *)
(***************************************************************************)
\* the items a caller hands to knowledge.set: plain text under its derived
\* id, with or without an embedding, or a reference to a file
SetInputs ==
    { [id |-> stringToUuid(t), text |-> t, source |-> "", embedded |-> e] :
          t \in Texts, e \in BOOLEAN }
    \cup { [id |-> DocId(p), text |-> "", source |-> p, embedded |-> FALSE] :
          p \in Paths }

\* a buggy record that is stored under a fresh id
SetRecord_freshId(item) ==
    [id |-> <<"v4", Len(fragments)>>, text |-> item.text, source |-> item.source,
     embedded |-> item.embedded, roomId |-> "agent"]

\* the Memory knowledge.set hands to knowledgeManager.createMemory
SetRecord(item) ==
    [id |-> item.id, text |-> item.text, source |-> item.source,
     embedded |-> item.embedded, roomId |-> "agent"]

\* the first await of knowledge.set: loadContent when the item has a source
\* and no text, else getCachedEmbeddings when it has no embedding, else
\* createMemory
SetFirstAwait(item) ==
    IF item.source # "" /\ item.text = "" THEN "load"
    ELSE IF ~item.embedded THEN "embed"
    ELSE "create"

\* the await that follows loadContent
SetAwaitAfterLoad(item) == IF ~item.embedded THEN "embed" ELSE "create"

\* the argument knowledge.set passes to loadContent
LoadArgs(item) == [path |-> item.source, content |-> ""]

\* item.content = {...item.content, ...loadedContent}
MergeLoaded(item, loaded) ==
    [item EXCEPT !.text = loaded.text, !.source = loaded.source]

\* the sources loadContent is called with
LoaderInputs == [path : {"", "f1", "missing"}, content : {"", "c1"}]

\* the call about to be made repeats work for an id already ingested
Redundant(pc, id) ==
    IF pc \in {"embed", "create"} /\ kCaller = "pck" /\ id \in kIngested
    THEN {<<pc, id>>}
    ELSE {}

\* the top-level call rejects
KRaise ==
    /\ kPc' = "idle"
    /\ kRaised' = TRUE
    /\ UNCHANGED <<kCaller, kItems, kIdx, kItem, kCalls, kSetDone, kIngested,
                   kRedundant, fragments, documents, kGiven>>

\* knowledge.set(runtime, item), called directly
KSetCall(item) ==
    /\ phase = "ready"
    /\ kPc = "idle"
    /\ kCalls < MaxCalls
    /\ kCalls' = kCalls + 1
    /\ kCaller' = "set"
    /\ kItem' = item
    /\ kItems' = <<>>
    /\ kIdx' = 0
    /\ kRaised' = FALSE
    /\ kPc' = SetFirstAwait(item)
    /\ kGiven' = item
    /\ UNCHANGED <<kSetDone, kIngested, kRedundant, fragments, documents, kLoaded>>
    /\ UNCHANGED <<regVars, paVars, evVars, csVars, kgVars>>
    /\ UNCHANGED bootVars

\* processCharacterKnowledge(items) for a non-empty items, up to the first
\* getMemoryById
PckStart(items) ==
    /\ kCaller' = "pck"
    /\ kItems' = items
    /\ kIdx' = 1
    /\ kItem' = NoItem
    /\ kRaised' = FALSE
    /\ kPc' = "probe"
    /\ kGiven' = NoItem
    /\ UNCHANGED <<kSetDone, kIngested, kRedundant, fragments, documents,
                   kLoaded>>

\* processCharacterKnowledge(items), called on its own
KPckCall(items) ==
    /\ phase = "ready"
    /\ kPc = "idle"
    /\ kCalls < MaxCalls
    /\ items # <<>>
    /\ kCalls' = kCalls + 1
    /\ PckStart(items)
    /\ UNCHANGED <<regVars, paVars, evVars, csVars, kgVars>>
    /\ UNCHANGED bootVars

\* the for loop of processCharacterKnowledge moves on: the next probe, or
\* the end of the call
KPckNext ==
    IF kIdx < Len(kItems)
    THEN kIdx' = kIdx + 1 /\ kPc' = "probe"
    ELSE kIdx' = kIdx /\ kPc' = "idle"

\* the partition processCharacterKnowledge probes: this.documentsManager
ProbedPartition == documents

\* await this.documentsManager.getMemoryById(knowledgeId) settles
KProbeSettle(outcome) ==
    /\ kPc = "probe"
    /\ LET text == kItems[kIdx]
           knowledgeId == stringToUuid(text)
           item == [id |-> knowledgeId, text |-> text, source |-> "",
                    embedded |-> FALSE]
       IN  IF outcome = "throw" THEN KRaise /\ UNCHANGED kLoaded
           ELSE IF HasMemory(ProbedPartition, knowledgeId)
           THEN /\ KPckNext
                /\ UNCHANGED <<kCaller, kItems, kItem, kCalls, kRaised, kSetDone,
                               kIngested, kRedundant, fragments, documents,
                               kGiven, kLoaded>>
           ELSE /\ kItem' = item
                /\ kGiven' = item
                /\ UNCHANGED kLoaded
                /\ kPc' = SetFirstAwait(item)
                /\ kRedundant' = kRedundant \cup Redundant(SetFirstAwait(item), knowledgeId)
                /\ UNCHANGED <<kCaller, kItems, kIdx, kCalls, kRaised, kSetDone,
                               kIngested, fragments, documents>>
    /\ UNCHANGED <<regVars, paVars, evVars, csVars, kgVars>>
    /\ UNCHANGED bootVars

\* await knowledgeLoader.loadContent(...) settles: the file's content, or
\* "Knowledge file not found", which knowledge.set logs and rethrows
KLoadSettle ==
    /\ kPc = "load"
    /\ kLoaded' = [called |-> TRUE, source |-> LoadArgs(kItem),
                   result |-> LoadContent(LoadArgs(kItem))]
    /\ IF LoadContent(LoadArgs(kItem)).ok
       THEN /\ kItem' = MergeLoaded(kItem, LoadContent(LoadArgs(kItem)))
            /\ kPc' = SetAwaitAfterLoad(kItem)
            /\ kRedundant' = kRedundant \cup Redundant(SetAwaitAfterLoad(kItem), kItem.id)
            /\ UNCHANGED <<kCaller, kItems, kIdx, kCalls, kRaised, kSetDone,
                           kIngested, fragments, documents, kGiven>>
       ELSE KRaise
    /\ UNCHANGED <<regVars, paVars, evVars, csVars, kgVars>>
    /\ UNCHANGED bootVars

\* await runtime.messageManager.getCachedEmbeddings(text) settles with a
\* vector ("vec"), with an empty list ("none"), or rejects ("throw")
KEmbedSettle(outcome) ==
    /\ kPc = "embed"
    /\ IF outcome = "throw" THEN KRaise
       ELSE /\ kItem' = [kItem EXCEPT !.embedded = (outcome = "vec")]
            /\ kPc' = "create"
            /\ kRedundant' = kRedundant \cup Redundant("create", kItem.id)
            /\ UNCHANGED <<kCaller, kItems, kIdx, kCalls, kRaised, kSetDone,
                           kIngested, fragments, documents, kGiven>>
    /\ UNCHANGED kLoaded
    /\ UNCHANGED <<regVars, paVars, evVars, csVars, kgVars>>
    /\ UNCHANGED bootVars

\* await runtime.knowledgeManager.createMemory(...) settles; knowledge.set
\* returns to its caller
KCreateSettle(outcome) ==
    /\ kPc = "create"
    /\ IF outcome = "throw" THEN KRaise
       ELSE /\ fragments' = CreateMemory(fragments, SetRecord(kItem))
            /\ kSetDone' = [kSetDone EXCEPT ![kItem.id] = @ + 1]
            /\ IF kCaller = "pck"
               THEN /\ kIngested' = kIngested \cup {kItem.id}
                    /\ KPckNext
               ELSE /\ kPc' = "idle"
                    /\ UNCHANGED <<kIngested, kIdx>>
            /\ UNCHANGED <<kCaller, kItems, kItem, kCalls, kRaised, kRedundant,
                           documents, kGiven>>
    /\ UNCHANGED kLoaded
    /\ UNCHANGED <<regVars, paVars, evVars, csVars, kgVars>>
    /\ UNCHANGED bootVars

\* knowledgeLoader.loadContent(source), called directly
KLoaderCall(source) ==
    /\ phase = "ready"
    /\ kPc = "idle"
    /\ kCalls < MaxCalls
    /\ kCalls' = kCalls + 1
    /\ kLoaded' = [called |-> TRUE, source |-> source,
                   result |-> LoadContent(source)]
    /\ kRaised' = ~LoadContent(source).ok
    /\ kGiven' = NoItem
    /\ UNCHANGED <<kPc, kCaller, kItems, kIdx, kItem, kSetDone, kIngested,
                   kRedundant, fragments, documents>>
    /\ UNCHANGED <<regVars, paVars, evVars, csVars, kgVars>>
    /\ UNCHANGED bootVars

\* a constructed runtime over empty knowledge partitions
InitKnowledge ==
    /\ phase = "ready"
    /\ actions = <<>>
    /\ evaluators = <<>>
    /\ providers = <<>>
    /\ adapters = <<>>
    /\ services = EmptyMap
    /\ memoryManagers = EmptyMap
    /\ warned = {}
    /\ regRaised = FALSE
    /\ PAIdle
    /\ EvIdle
    /\ KIdle
    /\ CSIdle
    /\ KGIdle
    /\ BootIdle
    /\ fragments = <<>>
    /\ documents \in { <<>>, << [id |-> stringToUuid("t2"), text |-> "t2",
                                 source |-> "", embedded |-> TRUE,
                                 roomId |-> "agent"] >> }

NextKnowledge ==
    \/ \E item \in SetInputs : KSetCall(item)
    \/ \E items \in SeqsUpTo(Texts, MaxItems) : KPckCall(items)
    \/ \E outcome \in {"answer", "throw"} : KProbeSettle(outcome)
    \/ KLoadSettle
    \/ \E source \in LoaderInputs : KLoaderCall(source)
    \/ \E outcome \in {"vec", "none", "throw"} : KEmbedSettle(outcome)
    \/ \E outcome \in {"ok", "throw"} : KCreateSettle(outcome)

\* knowledge ingestion: direct knowledge.set calls and string ingestion
SpecKnowledge == InitKnowledge /\ [][NextKnowledge]_vars

(***************************************************************************)
(* composeState (runtime.ts 1062-1500) and updateRecentMessageState        *)
(* (1502-1565).  A Memory is its id, its createdAt and the texts of its    *)
(* attachments; the store returns a room's messages recent first.          *)
(***************************************************************************)
\* 60 * 60 * 1000
OneHour == 3600000

\* the most messages a room holds
MaxMsgs == 3

\* createdAt values, on both sides of the one-hour bound
Times == {0, 1, OneHour, OneHour + 1}

\* the attachment texts a message carries
AttLists == { <<>>, <<"x">>, <<"x", "y">> }

\* a message before the store gave it an id
MsgBodies == [createdAt : Times, attachments : AttLists]

\* q is ordered recent first
RecentFirst(q) == \A i \in 1..(Len(q) - 1) : q[i].createdAt >= q[i + 1].createdAt

\* the ids of a room's messages: the oldest message has id 1
WithIds(q) ==
    [i \in 1..Len(q) |->
        [id |-> Len(q) + 1 - i, createdAt |-> q[i].createdAt,
         attachments |-> q[i].attachments]]

\* the rooms composeState is called on
Rooms == { WithIds(q) : q \in { r \in SeqsUpTo(MsgBodies, MaxMsgs) : RecentFirst(r) } }

\* messageManager.getMemories({roomId, count, unique: false}): the room's
\* messages, recent first
GetMemories(store) == store

\* formatMessages({messages, actors}): one line per message, in the order given
FormatMessages(msgs) == [i \in 1..Len(msgs) |-> msgs[i].id]

\* formatPosts({messages, actors, conversationHeader})
FormatPosts(msgs) == [i \in 1..Len(msgs) |-> msgs[i].id]

\* the empty string, for a formatted field
EmptyText == [header |-> "", body |-> <<>>]

\* addHeader(header, body)
AddHeader(header, body) == [header |-> header, body |-> body]

\* x && x.length > 0 ? addHeader(header, x) : ""
HeaderIfAny(header, body) ==
    IF Len(body) > 0 THEN AddHeader(header, body) ELSE EmptyText

\* Array.prototype.reverse
Reverse(q) == [i \in 1..Len(q) |-> q[Len(q) + 1 - i]]

RECURSIVE FlatAttachments(_)
\* msgs.flatMap((msg) => msg.content.attachments || [])
FlatAttachments(msgs) ==
    IF msgs = <<>> THEN <<>>
    ELSE Head(msgs).attachments \o FlatAttachments(Tail(msgs))

\* msg.content.attachments && msg.content.attachments.length > 0
HasAttachments(msg) == Len(msg.attachments) > 0

\* recentMessagesData.find(...): the index of the first message that has
\* attachments, 0 when there is none
LastMessageWithAttachment(recent) ==
    IF \E i \in 1..Len(recent) : HasAttachments(recent[i])
    THEN CHOOSE i \in 1..Len(recent) :
             /\ HasAttachments(recent[i])
             /\ \A h \in 1..(i - 1) : ~HasAttachments(recent[h])
    ELSE 0

\* a buggy window test that hides the message at the bound too
IsWithinTime_strict(msgTime, oneHourBeforeLastMessage) ==
    msgTime > oneHourBeforeLastMessage

\* isWithinTime = msgTime >= oneHourBeforeLastMessage
IsWithinTime(msgTime, oneHourBeforeLastMessage) ==
    msgTime >= oneHourBeforeLastMessage

\* attachments.forEach((attachment) => { attachment.text = "[Hidden]" })
HideAttachments(msg) ==
    [msg EXCEPT !.attachments = [i \in 1..Len(msg.attachments) |-> "[Hidden]"]]

\* the attachment window of composeState: the recentMessagesData array and
\* allAttachments after it
AttachmentWindow(recent, messageAttachments) ==
    LET k == LastMessageWithAttachment(recent)
    IN  IF k = 0
        THEN [recent |-> recent, all |-> messageAttachments]
        ELSE LET bound == recent[k].createdAt - OneHour
                 rev == Reverse(recent)
                 after == [i \in 1..Len(rev) |->
                              IF IsWithinTime(rev[i].createdAt, bound)
                              THEN rev[i]
                              ELSE HideAttachments(rev[i])]
             IN  [recent |-> after, all |-> FlatAttachments(after)]

\* the arguments of composeState: the attachments of the message and
\* additionalKeys
ComposeInputs ==
    { [attachments |-> <<>>, additionalKeys |-> <<>>],
      [attachments |-> <<"m">>, additionalKeys |-> [extra |-> "v"]] }

\* the knowledge items knowledge.get resolves to
KnowledgeLists == { <<"k1">> }

\* the registries composeState is run against
ComposeActions ==
    << [name |-> <<"a", "_", "B">>, similes |-> <<>>, hasHandler |-> TRUE],
       [name |-> <<"c">>, similes |-> <<>>, hasHandler |-> TRUE] >>

ComposeEvaluators ==
    << [name |-> "E1", alwaysRun |-> FALSE, hasHandler |-> TRUE],
       [name |-> "E2", alwaysRun |-> TRUE, hasHandler |-> TRUE] >>

\* what a validate call settles with: it resolves true or false, or it
\* throws / rejects
ValidateOutcomes == {"true", "false", "throws"}

\* the outcomes of the calls composeState joins at its last await: every
\* validate, and getProviders, which resolves to the providers' text
ComposeOutcomes ==
    [actions    : [1..Len(actions) -> ValidateOutcomes],
     evaluators : [1..Len(evaluators) -> ValidateOutcomes],
     providers  : {"text"}]

\* the names of a list of capabilities, in the order of the list
Names(caps) == [i \in 1..Len(caps) |-> caps[i].name]

\* a buggy filter that lists every registered capability
Resolved_all(caps, outcomes) == caps

RECURSIVE Resolved(_, _)
\* resolvedActions.filter(Boolean): the capabilities whose validate resolved
\* true, in the order of the registry
Resolved(caps, outcomes) ==
    IF caps = <<>> THEN <<>>
    ELSE LET rest == Resolved(Tail(caps), Tail(outcomes))
         IN  IF Head(outcomes) = "true" THEN <<Head(caps)>> \o rest ELSE rest

\* the value null
Null == [null |-> TRUE]

\* the value undefined of a snapshot field
UndefinedField == [undefined |-> TRUE]

\* a string that is not built by addHeader
Text(str) == [header |-> "", body |-> <<str>>]

\* list[Math.floor(Math.random() * list.length)], rnd standing for the
\* random draw
PickAt(list, rnd) == list[(rnd % Len(list)) + 1]

\* lore: "" or the selected lore bits joined by "\n"
Lore(bits) == [header |-> "", body |-> bits]

\* actorsData?.find((actor) => actor.id === userId)?.name
SenderName(actorsData, userId) ==
    IF \E i \in 1..Len(actorsData) : actorsData[i].id = userId
    THEN Text(actorsData[CHOOSE i \in 1..Len(actorsData) :
                             /\ actorsData[i].id = userId
                             /\ \A j \in 1..(i - 1) : actorsData[j].id # userId].name)
    ELSE UndefinedField

\* formatActors({actors: actorsData ?? []})
FormatActors(actorsData) == [i \in 1..Len(actorsData) |-> actorsData[i].name]

\* initialState: the draft snapshot (the fields the model follows)
InitialState(formatted, recent, all, knowledgeData, additionalKeys, rnd) ==
    additionalKeys @@
    [lore               |-> Lore(character.lore),
     adjective          |-> IF Len(character.adjectives) > 0
                            THEN Text(PickAt(character.adjectives, rnd))
                            ELSE EmptyText,
     topic              |-> IF Len(character.topics) > 0
                            THEN Text(PickAt(character.topics, rnd))
                            ELSE Null,
     topics             |-> HeaderIfAny("is interested in", character.topics),
     senderName         |-> SenderName(roomActors, Sender),
     actors             |-> HeaderIfAny("# Actors", FormatActors(roomActors)),
     roomId             |-> "room",
     goals              |-> EmptyText,
     goalsData          |-> <<>>,
     knowledgeData      |-> knowledgeData,
     recentMessages     |-> HeaderIfAny("# Conversation Messages", formatted.recentMessages),
     recentPosts        |-> HeaderIfAny("# Posts in Thread", formatted.recentPosts),
     recentMessagesData |-> recent,
     attachments        |-> HeaderIfAny("# Attachments", all)]

\* actionState: the capability listing
ActionState(actionsData, evaluatorsData) ==
    [actionNames       |-> AddHeader("Possible response actions: ", Names(actionsData)),
     actions           |-> HeaderIfAny("# Available Actions", Names(actionsData)),
     actionExamples    |-> HeaderIfAny("# Action Examples", Names(actionsData)),
     evaluatorsData    |-> evaluatorsData,
     evaluators        |-> HeaderIfAny("", Names(evaluatorsData)),
     evaluatorNames    |-> HeaderIfAny("", Names(evaluatorsData)),
     evaluatorExamples |-> HeaderIfAny("", Names(evaluatorsData)),
     providers         |-> AddHeader("# Additional Information", <<"p">>)]

\* await Promise.all([...]) rejects when one of the joined promises rejects
Rejects(outcomes) ==
    \/ \E i \in DOMAIN outcomes.actions : outcomes.actions[i] = "throws"
    \/ \E i \in DOMAIN outcomes.evaluators : outcomes.evaluators[i] = "throws"

\* runtime.composeState(message, additionalKeys)
CSCall(attachments, additionalKeys) ==
    /\ phase = "ready"
    /\ csPc = "idle"
    /\ csPc' = "gather"
    /\ csMessage' = [attachments |-> attachments, additionalKeys |-> additionalKeys]
    /\ UNCHANGED <<csStore, csRecent, csAttachments, csDraft, csOutcomes, csState,
                   urPc, urInput, urOut>>
    /\ UNCHANGED <<regVars, paVars, evVars, kVars, kgVars>>
    /\ UNCHANGED bootVars

\* a buggy composeState that writes the messages back to the store once
\* the attachment window is applied
CSGatherSettle_persist(outcome) ==
    /\ csPc = "gather"
    /\ IF outcome = "throws"
       THEN /\ csPc' = "raised"
            /\ UNCHANGED <<csStore, csRecent, csAttachments, csDraft>>
       ELSE LET recent == GetMemories(csStore)
                w == AttachmentWindow(recent, csMessage.attachments)
            IN  /\ csDraft' = [recentMessages |-> FormatMessages(recent),
                               recentPosts |-> FormatPosts(recent)]
                /\ csRecent' = w.recent
                /\ csAttachments' = w.all
                /\ csStore' = w.recent
                /\ csPc' = "interactions"
    /\ UNCHANGED <<csMessage, csOutcomes, csState, urPc, urInput, urOut>>
    /\ UNCHANGED <<regVars, paVars, evVars, kVars, kgVars>>
    /\ UNCHANGED bootVars

\* the first Promise.all (actors, recent messages, goals) settles; on
\* success the messages are formatted and the attachment window is applied
CSGatherSettle(outcome) ==
    /\ csPc = "gather"
    /\ IF outcome = "throws"
       THEN /\ csPc' = "raised"
            /\ UNCHANGED <<csRecent, csAttachments, csDraft>>
       ELSE LET recent == GetMemories(csStore)
                w == AttachmentWindow(recent, csMessage.attachments)
            IN  /\ csDraft' = [recentMessages |-> FormatMessages(recent),
                               recentPosts |-> FormatPosts(recent)]
                /\ csRecent' = w.recent
                /\ csAttachments' = w.all
                /\ csPc' = "interactions"
    /\ UNCHANGED <<csStore, csMessage, csOutcomes, csState, urPc, urInput, urOut>>
    /\ UNCHANGED <<regVars, paVars, evVars, kVars, kgVars>>
    /\ UNCHANGED bootVars

\* the recent-interactions lookups settle
CSInteractionsSettle(outcome) ==
    /\ csPc = "interactions"
    /\ csPc' = IF outcome = "throws" THEN "raised" ELSE "knowledge"
    /\ UNCHANGED <<csStore, csMessage, csRecent, csAttachments, csDraft, csOutcomes,
                   csState, urPc, urInput, urOut>>
    /\ UNCHANGED <<regVars, paVars, evVars, kVars, kgVars>>
    /\ UNCHANGED bootVars

\* await knowledge.get(this, message) resolves (get catches every error);
\* initialState is built and every validate and getProviders is started
CSKnowledgeSettle(knowledgeData, rnd) ==
    /\ csPc = "knowledge"
    /\ csDraft' = InitialState(csDraft, csRecent, csAttachments, knowledgeData,
                               csMessage.additionalKeys, rnd)
    /\ csPc' = "validate"
    /\ UNCHANGED <<csStore, csMessage, csRecent, csAttachments, csOutcomes, csState,
                   urPc, urInput, urOut>>
    /\ UNCHANGED <<regVars, paVars, evVars, kVars, kgVars>>
    /\ UNCHANGED bootVars

\* the last Promise.all settles: composeState rejects, or it returns
\* { ...initialState, ...actionState }
CSValidateSettle(outcomes) ==
    /\ csPc = "validate"
    /\ csOutcomes' = outcomes
    /\ IF Rejects(outcomes)
       THEN /\ csPc' = "raised"
            /\ UNCHANGED csState
       ELSE /\ csPc' = "done"
            /\ csState' = ActionState(Resolved(actions, outcomes.actions),
                                      Resolved(evaluators, outcomes.evaluators))
                          @@ csDraft
    /\ UNCHANGED <<csStore, csMessage, csRecent, csAttachments, csDraft,
                   urPc, urInput, urOut>>
    /\ UNCHANGED <<regVars, paVars, evVars, kVars, kgVars>>
    /\ UNCHANGED bootVars

\* the attachments updateRecentMessageState lists: those of the messages
\* that are within one hour of the first message that has attachments
RecentAttachments(recent) ==
    LET k == LastMessageWithAttachment(recent)
    IN  IF k = 0 THEN <<>>
        ELSE FlatAttachments(
                 SelectSeq(recent,
                           LAMBDA msg : msg.createdAt >= recent[k].createdAt - OneHour))

\* a buggy refresh that returns the recent-message fields alone
URResult_fieldsOnly(state, recent) ==
    [recentMessages     |-> AddHeader("# Conversation Messages", FormatMessages(recent)),
     recentMessagesData |-> recent,
     attachments        |-> [header |-> "", body |-> RecentAttachments(recent)]]

\* { ...state, recentMessages, recentMessagesData, attachments }
URResult(state, recent) ==
    [recentMessages     |-> AddHeader("# Conversation Messages", FormatMessages(recent)),
     recentMessagesData |-> recent,
     attachments        |-> [header |-> "", body |-> RecentAttachments(recent)]]
    @@ state

\* messageManager.createMemory of a new message: it is the room's most
\* recent message from then on
CreateMessage(body) ==
    /\ csPc = "done"
    /\ urPc = "idle"
    /\ Len(csStore) < MaxMsgs
    /\ \A i \in 1..Len(csStore) : body.createdAt >= csStore[i].createdAt
    /\ csStore' = << [id |-> Len(csStore) + 1, createdAt |-> body.createdAt,
                      attachments |-> body.attachments] >> \o csStore
    /\ UNCHANGED <<csPc, csMessage, csRecent, csAttachments, csDraft, csOutcomes,
                   csState, urPc, urInput, urOut>>
    /\ UNCHANGED <<regVars, paVars, evVars, kVars, kgVars>>
    /\ UNCHANGED bootVars

\* runtime.updateRecentMessageState(state), with the snapshot composeState
\* returned
URCall ==
    /\ csPc = "done"
    /\ urPc = "idle"
    /\ urPc' = "retrieve"
    /\ urInput' = csState
    /\ UNCHANGED <<csStore, csPc, csMessage, csRecent, csAttachments, csDraft,
                   csOutcomes, csState, urOut>>
    /\ UNCHANGED <<regVars, paVars, evVars, kVars, kgVars>>
    /\ UNCHANGED bootVars

\* await this.messageManager.getMemories(...) settles; nothing is assigned
\* to state or to what it refers to
URRetrieveSettle(outcome) ==
    /\ urPc = "retrieve"
    /\ IF outcome = "throws"
       THEN urPc' = "raised" /\ UNCHANGED urOut
       ELSE urPc' = "done" /\ urOut' = URResult(csState, GetMemories(csStore))
    /\ UNCHANGED <<csStore, csPc, csMessage, csRecent, csAttachments, csDraft,
                   csOutcomes, csState, urInput>>
    /\ UNCHANGED <<regVars, paVars, evVars, kVars, kgVars>>
    /\ UNCHANGED bootVars

\* the rooms the capability listing is composed on
ComposeRooms ==
    { <<>>,
      WithIds(<< [createdAt |-> OneHour + 1, attachments |-> <<"x">>],
                 [createdAt |-> 0, attachments |-> <<"x", "y">>] >>) }

\* the state of the model outside the registry and the room
ComposeIdle ==
    /\ phase = "ready"
    /\ providers = <<"p1">>
    /\ adapters = <<>>
    /\ services = EmptyMap
    /\ memoryManagers = EmptyMap
    /\ warned = {}
    /\ regRaised = FALSE
    /\ PAIdle
    /\ EvIdle
    /\ KIdle
    /\ KEmptyStore
    /\ KGIdle
    /\ BootIdle
    /\ csPc = "idle"
    /\ csMessage = NoMessage
    /\ csRecent = <<>>
    /\ csAttachments = <<>>
    /\ csDraft = NoState
    /\ csOutcomes = NoOutcomes
    /\ csState = NoState
    /\ urPc = "idle"
    /\ urInput = NoState
    /\ urOut = NoState

\* a constructed runtime with registered actions and evaluators
InitCompose ==
    /\ ComposeIdle
    /\ actions = ComposeActions
    /\ evaluators = ComposeEvaluators
    /\ csStore \in ComposeRooms

\* a constructed runtime without actions and evaluators, and any room
InitWindow ==
    /\ ComposeIdle
    /\ actions = <<>>
    /\ evaluators = <<>>
    /\ csStore \in Rooms

\* a constructed runtime without actions and evaluators, for any character
\* and any set of actors, over an empty room or a room of one message
InitSnapshot ==
    /\ phase = "ready"
    /\ actions = <<>>
    /\ evaluators = <<>>
    /\ providers = <<"p1">>
    /\ adapters = <<>>
    /\ services = EmptyMap
    /\ memoryManagers = EmptyMap
    /\ warned = {}
    /\ regRaised = FALSE
    /\ PAIdle
    /\ EvIdle
    /\ KIdle
    /\ KEmptyStore
    /\ KGIdle
    /\ nodeEnv = TRUE
    /\ character \in Characters
    /\ roomActors \in ActorLists
    /\ InIdle
    /\ DirIdle
    /\ LKIdle
    /\ SysIdle
    /\ csPc = "idle"
    /\ csMessage = NoMessage
    /\ csRecent = <<>>
    /\ csAttachments = <<>>
    /\ csDraft = NoState
    /\ csOutcomes = NoOutcomes
    /\ csState = NoState
    /\ urPc = "idle"
    /\ urInput = NoState
    /\ urOut = NoState
    /\ csStore \in {<<>>, WithIds(<< [createdAt |-> 0, attachments |-> <<"x">>] >>)}

\* the values Math.floor(Math.random() * n) is drawn from
RandomDraws == {0, 1}

NextCompose ==
    \/ \E m \in ComposeInputs : CSCall(m.attachments, m.additionalKeys)
    \/ \E outcome \in {"ok", "throws"} : CSGatherSettle(outcome)
    \/ \E outcome \in {"ok", "throws"} : CSInteractionsSettle(outcome)
    \/ \E kd \in KnowledgeLists, rnd \in RandomDraws : CSKnowledgeSettle(kd, rnd)
    \/ \E outcomes \in ComposeOutcomes : CSValidateSettle(outcomes)
    \/ \E body \in MsgBodies : CreateMessage(body)
    \/ URCall
    \/ \E outcome \in {"ok", "throws"} : URRetrieveSettle(outcome)

\* one composeState call against registered capabilities, then refreshes
SpecCompose == InitCompose /\ [][NextCompose]_vars

\* one composeState call on any room, then refreshes of its snapshot
SpecWindow == InitWindow /\ [][NextCompose]_vars

\* one composeState call for any character and any actors, then refreshes
SpecSnapshot == InitSnapshot /\ [][NextCompose]_vars

(***************************************************************************)
(* knowledge.get (runtime.ts 1646-1687).  Similarity thresholds are in      *)
(* hundredths: 70 is 0.7.                                                  *)
(***************************************************************************)
\* match_threshold: options.match_threshold || 0.7
DefaultThreshold == 70

\* count: options.count || 5
DefaultCount == 5

\* the options callers pass: an object in which any field may be missing
GetOptions ==
    [given : {TRUE}, roomId : {"undefined", "room1"},
     match_threshold : {Undefined, 0, 10, 50}, count : {Undefined, 0, 3},
     unique : {"undefined", "true"}, useAgentFilter : BOOLEAN]

\* the message texts: a query, the empty text, and "invalid" for a message
\* that has no content
GetTexts == {"query", "", "invalid"}

\* options: SearchOptions = { roomId: runtime.agentId as UUID }
EffectiveOptions(options) ==
    IF options.given THEN options
    ELSE [given |-> FALSE, roomId |-> "agent", match_threshold |-> Undefined,
          count |-> Undefined, unique |-> "undefined", useAgentFilter |-> FALSE]

\* x || d on a number: d when x is undefined or 0
OrDefault(x, d) == IF x = Undefined \/ x = 0 THEN d ELSE x

\* the second argument of searchMemoriesByEmbedding
SearchArgs(options) ==
    [match_threshold |-> OrDefault(EffectiveOptions(options).match_threshold,
                                   DefaultThreshold),
     count           |-> OrDefault(EffectiveOptions(options).count, DefaultCount),
     roomId          |-> EffectiveOptions(options).roomId,
     unique          |-> EffectiveOptions(options).unique]

\* a buggy catch that lets the error out of get
KGCatch_rethrow ==
    /\ kgPc' = "raised"
    /\ UNCHANGED kgResult

\* catch (error) { elizaLogger.error(...); return []; }
KGCatch ==
    /\ kgPc' = "done"
    /\ kgResult' = <<>>

\* knowledge.get(runtime, message, options): up to the first await; reading
\* message.content.text of a message without content throws inside the try
KGCall(text, options) ==
    /\ phase = "ready"
    /\ kgPc = "idle"
    /\ kgArgs' = [text |-> text, agentId |-> "agent1", options |-> options]
    /\ IF text = "invalid"
       THEN KGCatch
       ELSE kgPc' = "embed" /\ UNCHANGED kgResult
    /\ UNCHANGED <<kgOutcomes, kgSearches>>
    /\ UNCHANGED <<regVars, paVars, evVars, kVars, csVars>>
    /\ UNCHANGED bootVars

\* a buggy lookup step that searches whatever the lookup returned
KGEmbedSettle_alwaysSearch(outcome) ==
    /\ kgPc = "embed"
    /\ kgOutcomes' = [kgOutcomes EXCEPT !.embed = outcome]
    /\ kgSearches' = Append(kgSearches, SearchArgs(kgArgs.options))
    /\ kgPc' = "search"
    /\ UNCHANGED <<kgArgs, kgResult>>
    /\ UNCHANGED <<regVars, paVars, evVars, kVars, csVars>>
    /\ UNCHANGED bootVars

\* await runtime.messageManager.getCachedEmbeddings(text) settles: it
\* rejects, it resolves to nothing or to an empty list (return []), or it
\* resolves to embeddings and the similarity search is started
KGEmbedSettle(outcome) ==
    /\ kgPc = "embed"
    /\ kgOutcomes' = [kgOutcomes EXCEPT !.embed = outcome]
    /\ IF outcome = "throws"
       THEN KGCatch /\ UNCHANGED kgSearches
       ELSE IF outcome \in {"null", "empty"}
       THEN kgPc' = "done" /\ kgResult' = <<>> /\ UNCHANGED kgSearches
       ELSE /\ kgSearches' = Append(kgSearches, SearchArgs(kgArgs.options))
            /\ kgPc' = "search"
            /\ UNCHANGED kgResult
    /\ UNCHANGED kgArgs
    /\ UNCHANGED <<regVars, paVars, evVars, kVars, csVars>>
    /\ UNCHANGED bootVars

\* await runtime.knowledgeManager.searchMemoriesByEmbedding(...) settles:
\* it rejects, or it resolves to a list of memories that get maps to items
KGSearchSettle(outcome, memories) ==
    /\ kgPc = "search"
    /\ kgOutcomes' = [kgOutcomes EXCEPT !.search = outcome]
    /\ IF outcome = "throws"
       THEN KGCatch
       ELSE kgPc' = "done" /\ kgResult' = memories
    /\ UNCHANGED <<kgArgs, kgSearches>>
    /\ UNCHANGED <<regVars, paVars, evVars, kVars, csVars>>
    /\ UNCHANGED bootVars

\* a constructed runtime on which knowledge.get is called
InitGet ==
    /\ phase = "ready"
    /\ actions = <<>>
    /\ evaluators = <<>>
    /\ providers = <<>>
    /\ adapters = <<>>
    /\ services = EmptyMap
    /\ memoryManagers = EmptyMap
    /\ warned = {}
    /\ regRaised = FALSE
    /\ PAIdle
    /\ EvIdle
    /\ KIdle
    /\ KEmptyStore
    /\ CSIdle
    /\ KGIdle
    /\ BootIdle

NextGet ==
    \/ \E text \in GetTexts, options \in GetOptions \cup {NoOptions} : KGCall(text, options)
    \/ \E outcome \in {"null", "empty", "vec", "throws"} : KGEmbedSettle(outcome)
    \/ \E outcome \in {"ok", "throws"}, memories \in {<<>>, <<"k1">>, <<"k1", "k2">>} :
           KGSearchSettle(outcome, memories)

\* one knowledge.get call
SpecGet == InitGet /\ [][NextGet]_vars

(***************************************************************************)
(* processCharacterKnowledgeDirectory (runtime.ts 632-740).                *)
(***************************************************************************)
\* const BATCH_SIZE = 5
BATCH_SIZE == 5

\* the files of the largest directory
MaxFiles == 6

\* String.replace(/\.\./g, ""): every ".." is removed, left to right
RECURSIVE RemoveDotDot(_)
RemoveDotDot(s) ==
    IF s = <<>> THEN <<>>
    ELSE IF Len(s) >= 2 /\ s[1] = "." /\ s[2] = "."
    THEN RemoveDotDot(SubSeq(s, 3, Len(s)))
    ELSE <<s[1]>> \o RemoveDotDot(Tail(s))

\* the directories that exist under knowledgeRoot, with the number of
\* files glob finds in each
DirListing == (<<"d">> :> MaxFiles) @@ (<<"e">> :> 0) @@ (<<"s">> :> 1)

\* the directory names a character file gives: none, existing ones (one of
\* them written with ".."), an empty one and a missing one
DirInputs == {<<>>, <<"d">>, <<".", ".", "d">>, <<"e">>, <<"g">>}

\* glob("**/*.{md,txt,pdf}", {cwd: dirPath}): the files, named 1, 2, ...
Glob(dir) == [i \in 1..DirListing[dir] |-> i]

\* fs.readFileSync(join(dirPath, file), "utf8")
FileContent(file) == IF file % 2 = 1 THEN "t1" ELSE "t2"

\* Array.prototype.slice(from, to) for 0 <= from <= to
Slice(arr, from, to) ==
    SubSeq(arr, from + 1, IF to < Len(arr) THEN to ELSE Len(arr))

\* a slice that takes all the remaining files
Batch_rest(files, i) == Slice(files, i, Len(files))

\* const batch = files.slice(i, i + BATCH_SIZE)
Batch(files, i) == Slice(files, i, i + BATCH_SIZE)

\* the elements of an array
Elements(arr) == {arr[i] : i \in 1..Len(arr)}

\* a file whose callback has not been called
Pending == [pc |-> "pending", embedded |-> FALSE]

\* batch.map(async (file) => ...): the callback of every file of the batch
\* runs up to await import("fs"), or to its end outside node
StartBatch(files, i, old) ==
    [f \in DOMAIN old |->
        IF f \in Elements(Batch(files, i))
        THEN [pc |-> IF nodeEnv THEN "import" ELSE "done", embedded |-> FALSE]
        ELSE old[f]]

\* the item processCharacterKnowledge hands to knowledge.set for a file
DirItem(f) ==
    [id |-> stringToUuid(FileContent(f)), text |-> FileContent(f),
     source |-> "", embedded |-> dFile[f].embedded]

\* processCharacterKnowledgeDirectory(dirConfig), up to its first await
DirStart(dir) ==
    /\ dDir' = dir
    /\ dFiles' = <<>>
    /\ dStart' = 0
    /\ dFile' = <<>>
    /\ IF dir = <<>>
       THEN dPc' = "done"
       ELSE IF RemoveDotDot(dir) \notin DOMAIN DirListing
       THEN dPc' = "done"
       ELSE dPc' = "glob"

\* processCharacterKnowledgeDirectory called on its own
DirCall(dir) ==
    /\ phase = "ready"
    /\ inPc = "idle"
    /\ dPc = "idle"
    /\ DirStart(dir)
    /\ UNCHANGED <<envVars, sysVars, inVars, lkVars>>
    /\ UNCHANGED <<regVars, paVars, evVars, kVars, csVars, kgVars>>

\* await glob(...) settles: a rejection reaches the outer catch, which logs
\* and rethrows; no files ends the call; else the first batch is started
DGlobSettle(outcome) ==
    /\ dPc = "glob"
    /\ IF outcome = "throw"
       THEN dPc' = "raised" /\ UNCHANGED <<dFiles, dStart, dFile>>
       ELSE /\ dFiles' = Glob(RemoveDotDot(dDir))
            /\ dStart' = 0
            /\ IF Glob(RemoveDotDot(dDir)) = <<>>
               THEN dPc' = "done" /\ dFile' = <<>>
               ELSE /\ dPc' = "batch"
                    /\ dFile' = StartBatch(Glob(RemoveDotDot(dDir)), 0,
                                    [f \in Elements(Glob(RemoveDotDot(dDir))) |-> Pending])
    /\ UNCHANGED <<dDir, envVars, sysVars, inVars, lkVars>>
    /\ UNCHANGED <<regVars, paVars, evVars, kVars, csVars, kgVars>>

\* a catch that lets the error of one file out of the batch
DFileCatch_rethrow(f) ==
    /\ dFile' = [dFile EXCEPT ![f].pc = "failed"]
    /\ dPc' = "raised"

\* catch (error) { elizaLogger.error("Failed to process file", ...) }: the
\* callback of the file resolves
DFileCatch(f) ==
    /\ dFile' = [dFile EXCEPT ![f].pc = "failed"]
    /\ dPc' = dPc

\* await import("fs") resumes: readFileSync, then processCharacterKnowledge
\* up to its getMemoryById
DFileImported(f, outcome) ==
    /\ dPc = "batch"
    /\ f \in DOMAIN dFile
    /\ dFile[f].pc = "import"
    /\ IF outcome = "throw"
       THEN DFileCatch(f)
       ELSE dFile' = [dFile EXCEPT ![f].pc = "probe"] /\ dPc' = dPc
    /\ UNCHANGED <<dDir, dFiles, dStart, envVars, sysVars, inVars, lkVars>>
    /\ UNCHANGED <<regVars, paVars, evVars, kVars, csVars, kgVars>>

\* the file's getMemoryById settles: a known document ends the callback,
\* else knowledge.set runs up to its first await
DFileProbed(f, outcome) ==
    /\ dPc = "batch"
    /\ f \in DOMAIN dFile
    /\ dFile[f].pc = "probe"
    /\ IF outcome = "throw"
       THEN DFileCatch(f)
       ELSE /\ dPc' = dPc
            /\ IF HasMemory(ProbedPartition, DirItem(f).id)
               THEN dFile' = [dFile EXCEPT ![f].pc = "done"]
               ELSE dFile' = [dFile EXCEPT ![f].pc = SetFirstAwait(DirItem(f))]
    /\ UNCHANGED <<dDir, dFiles, dStart, envVars, sysVars, inVars, lkVars>>
    /\ UNCHANGED <<regVars, paVars, evVars, kVars, csVars, kgVars>>

\* the file's getCachedEmbeddings settles
DFileEmbedded(f, outcome) ==
    /\ dPc = "batch"
    /\ f \in DOMAIN dFile
    /\ dFile[f].pc = "embed"
    /\ IF outcome = "throw"
       THEN DFileCatch(f)
       ELSE /\ dPc' = dPc
            /\ dFile' = [dFile EXCEPT ![f] = [pc |-> "create",
                                               embedded |-> (outcome = "vec")]]
    /\ UNCHANGED <<dDir, dFiles, dStart, envVars, sysVars, inVars, lkVars>>
    /\ UNCHANGED <<regVars, paVars, evVars, kVars, csVars, kgVars>>

\* the file's createMemory settles; its callback resolves
DFileCreated(f, outcome) ==
    /\ dPc = "batch"
    /\ f \in DOMAIN dFile
    /\ dFile[f].pc = "create"
    /\ IF outcome = "throw"
       THEN DFileCatch(f) /\ UNCHANGED <<fragments, kSetDone>>
       ELSE /\ dPc' = dPc
            /\ dFile' = [dFile EXCEPT ![f].pc = "done"]
            /\ fragments' = CreateMemory(fragments, SetRecord(DirItem(f)))
            /\ kSetDone' = [kSetDone EXCEPT ![DirItem(f).id] = @ + 1]
    /\ UNCHANGED <<documents, kPc, kCaller, kItems, kIdx, kItem, kCalls, kRaised,
                   kIngested, kRedundant, kGiven, kLoaded>>
    /\ UNCHANGED <<dDir, dFiles, dStart, envVars, sysVars, inVars, lkVars>>
    /\ UNCHANGED <<regVars, paVars, evVars, csVars, kgVars>>

\* the callback of the file has resolved
FileSettled(f) == dFile[f].pc \in {"done", "failed"}

\* await Promise.all(batch.map(...)) resumes once every callback of the
\* batch has resolved: the next batch is started, or the call ends
DBatchSettle ==
    /\ dPc = "batch"
    /\ \A f \in Elements(Batch(dFiles, dStart)) : FileSettled(f)
    /\ IF dStart + BATCH_SIZE < Len(dFiles)
       THEN /\ dStart' = dStart + BATCH_SIZE
            /\ dFile' = StartBatch(dFiles, dStart + BATCH_SIZE, dFile)
            /\ dPc' = "batch"
       ELSE /\ dPc' = "done"
            /\ UNCHANGED <<dStart, dFile>>
    /\ UNCHANGED <<dDir, dFiles, envVars, sysVars, inVars, lkVars>>
    /\ UNCHANGED <<regVars, paVars, evVars, kVars, csVars, kgVars>>

\* a document stored by an earlier run
OldDocument ==
    [id |-> stringToUuid("t2"), text |-> "t2", source |-> "", embedded |-> TRUE,
     roomId |-> "agent"]

\* a constructed runtime, inside or outside node, whose documents partition
\* holds one document
InitDirectory ==
    /\ phase = "ready"
    /\ actions = <<>>
    /\ evaluators = <<>>
    /\ providers = <<>>
    /\ adapters = <<>>
    /\ services = EmptyMap
    /\ memoryManagers = EmptyMap
    /\ warned = {}
    /\ regRaised = FALSE
    /\ PAIdle
    /\ EvIdle
    /\ KIdle
    /\ CSIdle
    /\ KGIdle
    /\ nodeEnv \in BOOLEAN
    /\ DefaultEnv
    /\ InIdle
    /\ DirIdle
    /\ LKIdle
    /\ SysIdle
    /\ fragments = <<>>
    /\ documents = <<OldDocument>>

NextDirectory ==
    \/ \E dir \in DirInputs : DirCall(dir)
    \/ \E outcome \in {"ok", "throw"} : DGlobSettle(outcome)
    \/ \E f \in 1..MaxFiles, outcome \in {"ok", "throw"} : DFileImported(f, outcome)
    \/ \E f \in 1..MaxFiles, outcome \in {"answer", "throw"} : DFileProbed(f, outcome)
    \/ \E f \in 1..MaxFiles, outcome \in {"vec", "none", "throw"} : DFileEmbedded(f, outcome)
    \/ \E f \in 1..MaxFiles, outcome \in {"ok", "throw"} : DFileCreated(f, outcome)
    \/ DBatchSettle

\* one directory ingestion
SpecDirectory == InitDirectory /\ [][NextDirectory]_vars

(***************************************************************************)
(* loadKnowledge (runtime.ts 1567-1617).                                   *)
(***************************************************************************)
\* a loop body that stores an empty item for a source it cannot read
LKContent_lenient(source) ==
    IF source.path # "" /\ source.path \in DOMAIN FileText
    THEN [ok |-> TRUE, text |-> FileText[source.path], source |-> source.path,
          type |-> "static", error |-> ""]
    ELSE IF source.content # ""
    THEN [ok |-> TRUE, text |-> source.content, source |-> "inline",
          type |-> "static", error |-> ""]
    ELSE [ok |-> TRUE, text |-> "", source |-> "", type |-> "static", error |-> ""]

\* the content loadKnowledge builds for a source: the file at source.path
\* when there is a path, else the inline content; it throws for an absent
\* file and for a source with neither
LKContent(source) ==
    IF source.path # ""
    THEN IF source.path \notin DOMAIN FileText
         THEN LoadError("Knowledge file not found")
         ELSE [ok |-> TRUE, text |-> FileText[source.path], source |-> source.path,
               type |-> "static", error |-> ""]
    ELSE IF source.content # ""
    THEN [ok |-> TRUE, text |-> source.content, source |-> "inline",
          type |-> "static", error |-> ""]
    ELSE LoadError("Knowledge source must have either path or content")

\* const knowledgeItem = { id: v4(), agentId, content, createdAt }
LKItem(source, idx) ==
    [id |-> V4(idx), text |-> LKContent(source).text,
     source |-> LKContent(source).source, embedded |-> FALSE]

\* the for loop of loadKnowledge at source idx: past the last source it
\* returns, on a source it cannot read it throws, else it calls
\* knowledge.set, which runs up to its first await
LKLoop(sources, idx) ==
    /\ lkIdx' = idx
    /\ IF idx > Len(sources)
       THEN /\ lkPc' = "done"
            /\ UNCHANGED <<lkSets, kPc, kCaller, kItem, kGiven, kRaised>>
       ELSE IF ~LKContent(sources[idx]).ok
       THEN /\ lkPc' = "raised"
            /\ UNCHANGED <<lkSets, kPc, kCaller, kItem, kGiven, kRaised>>
       ELSE /\ lkPc' = "set"
            /\ lkSets' = Append(lkSets, idx)
            /\ kCaller' = "set"
            /\ kItem' = LKItem(sources[idx], idx)
            /\ kGiven' = LKItem(sources[idx], idx)
            /\ kRaised' = FALSE
            /\ kPc' = SetFirstAwait(LKItem(sources[idx], idx))
    /\ UNCHANGED <<fragments, documents, kItems, kIdx, kCalls, kSetDone,
                   kIngested, kRedundant, kLoaded>>

\* loadKnowledge(), up to its first await
LKStart(knowledge) ==
    /\ lkSources' = knowledge.items
    /\ IF knowledge.format # "sources"
       THEN /\ lkPc' = "done"
            /\ UNCHANGED <<lkIdx, lkSets, kVars>>
       ELSE LKLoop(knowledge.items, 1)

\* loadKnowledge called on its own
LKCall(knowledge) ==
    /\ phase = "ready"
    /\ inPc = "idle"
    /\ lkPc = "idle"
    /\ kPc = "idle"
    /\ LKStart(knowledge)
    /\ UNCHANGED <<envVars, sysVars, inVars, dVars>>
    /\ UNCHANGED <<regVars, paVars, evVars, csVars, kgVars>>

\* await knowledge.set(this, knowledgeItem) resumes: a rejection leaves
\* loadKnowledge, else the loop moves to the next source
LKSetReturned ==
    /\ lkPc = "set"
    /\ kPc = "idle"
    /\ IF kRaised
       THEN /\ lkPc' = "raised"
            /\ UNCHANGED <<lkIdx, lkSets, kVars>>
       ELSE LKLoop(lkSources, lkIdx + 1)
    /\ UNCHANGED <<lkSources, envVars, sysVars, inVars, dVars>>
    /\ UNCHANGED <<regVars, paVars, evVars, csVars, kgVars>>

\* character.knowledge as loadKnowledge can find it
LoadConfigs ==
    {NoKnowledge, [format |-> "array", items |-> <<>>]}
        \cup {[format |-> "sources", items |-> q] : q \in SeqsUpTo(LoaderInputs, MaxSources)}

\* a constructed runtime over empty knowledge partitions
InitLoad ==
    /\ phase = "ready"
    /\ actions = <<>>
    /\ evaluators = <<>>
    /\ providers = <<>>
    /\ adapters = <<>>
    /\ services = EmptyMap
    /\ memoryManagers = EmptyMap
    /\ warned = {}
    /\ regRaised = FALSE
    /\ PAIdle
    /\ EvIdle
    /\ KIdle
    /\ KEmptyStore
    /\ CSIdle
    /\ KGIdle
    /\ BootIdle

NextLoad ==
    \/ \E knowledge \in LoadConfigs : LKCall(knowledge)
    \/ LKSetReturned
    \/ \E outcome \in {"vec", "none", "throw"} : KEmbedSettle(outcome)
    \/ \E outcome \in {"ok", "throw"} : KCreateSettle(outcome)

\* one loadKnowledge call
SpecLoad == InitLoad /\ [][NextLoad]_vars

(***************************************************************************)
(* The ensure operations (runtime.ts 956-1056) and initializeDatabase      *)
(* (439-451), over the accounts, rooms and participants of the database    *)
(* adapter.  Each ensure call is a lookup, then, when the lookup reports   *)
(* absence, a write; a write takes effect when its call settles.           *)
(***************************************************************************)

\* databaseAdapter.getAccountById(userId)
GetAccountById(userId) == userId \in dbAccounts

\* databaseAdapter.getRoom(roomId)
GetRoom(roomId) == roomId \in dbRooms

\* databaseAdapter.getParticipantsForRoom(roomId): the users of the room
GetParticipantsForRoom(roomId) == {u \in Users : <<u, roomId>> \in dbParticipants}

\* databaseAdapter.getParticipantsForAccount(userId): one entry per room the
\* user participates in
GetParticipantsForAccount(userId) == {r \in RoomIds : <<userId, r>> \in dbParticipants}

\* the condition under which the ensure call goes on to write, evaluated
\* when its lookup settles
Absent_always(task) == TRUE

Absent(task) ==
    CASE task.op = "ensureUserExists" -> ~GetAccountById(task.user)
      [] task.op = "ensureRoomExists" -> ~GetRoom(task.room)
      [] task.op = "ensureParticipantInRoom" ->
             task.user \notin GetParticipantsForRoom(task.room)
      [] task.op = "ensureParticipantExists" ->
             Cardinality(GetParticipantsForAccount(task.user)) = 0

\* the write the ensure call makes
WriteOf(task) ==
    CASE task.op = "ensureUserExists" -> <<"createAccount", task.user, "">>
      [] task.op = "ensureRoomExists" -> <<"createRoom", "", task.room>>
      [] OTHER -> <<"addParticipant", task.user, task.room>>

\* an ensure call is made: it runs up to its lookup
StartTask(tasks, t, op, userId, roomId) ==
    [tasks EXCEPT ![t] = [op |-> op, user |-> userId, room |-> roomId, pc |-> "lookup"]]

\* the lookup settles: the call returns, or issues its write
ELookupSettle(t) ==
    /\ enTasks[t].pc = "lookup"
    /\ IF Absent(enTasks[t])
       THEN /\ enTasks' = [enTasks EXCEPT ![t].pc = "write"]
            /\ dbWrites' = [dbWrites EXCEPT ![WriteOf(enTasks[t])] = @ + 1]
       ELSE /\ enTasks' = [enTasks EXCEPT ![t].pc = "done"]
            /\ UNCHANGED dbWrites
    /\ UNCHANGED <<dbAccounts, dbRooms, dbParticipants, enConn, idPc, gsVars, ppVars>>
    /\ UNCHANGED <<regVars, paVars, evVars, kVars, csVars, kgVars>>
    /\ UNCHANGED <<envVars, inVars, dVars, lkVars>>

\* createAccount / createRoom / addParticipant settles
EWriteSettle(t) ==
    /\ enTasks[t].pc = "write"
    /\ LET task == enTasks[t]
       IN /\ dbAccounts' = IF task.op = "ensureUserExists"
                           THEN dbAccounts \cup {task.user} ELSE dbAccounts
          /\ dbRooms' = IF task.op = "ensureRoomExists"
                        THEN dbRooms \cup {task.room} ELSE dbRooms
          /\ dbParticipants' =
                 IF task.op \in {"ensureParticipantInRoom", "ensureParticipantExists"}
                 THEN dbParticipants \cup {<<task.user, task.room>>}
                 ELSE dbParticipants
    /\ enTasks' = [enTasks EXCEPT ![t].pc = "done"]
    /\ UNCHANGED <<dbWrites, enConn, idPc, gsVars, ppVars>>
    /\ UNCHANGED <<regVars, paVars, evVars, kVars, csVars, kgVars>>
    /\ UNCHANGED <<envVars, inVars, dVars, lkVars>>

\* ensureParticipantExists(userId, roomId), called by a client
EnsureParticipantExistsCall(userId, roomId) ==
    /\ enTasks[<<"client", "part">>].pc \in {"none", "done"}
    /\ enTasks' = StartTask(enTasks, <<"client", "part">>, "ensureParticipantExists",
                            userId, roomId)
    /\ UNCHANGED <<dbAccounts, dbRooms, dbParticipants, dbWrites, enConn, idPc,
                   gsVars, ppVars>>
    /\ UNCHANGED <<regVars, paVars, evVars, kVars, csVars, kgVars>>
    /\ UNCHANGED <<envVars, inVars, dVars, lkVars>>

\* Promise.all over the calls named: every one of them has resolved
AllDone(c, names) == \A n \in names : enTasks[<<c, n>>].pc = "done"

\* ensureConnection(userId, roomId): the first Promise.all is entered
EnsureConnectionCall(c, userId, roomId) ==
    /\ enConn[c].pc = "idle"
    /\ enConn' = [enConn EXCEPT ![c] = [pc |-> "first", user |-> userId, room |-> roomId]]
    /\ enTasks' =
           StartTask(
               StartTask(
                   StartTask(enTasks, <<c, "agentUser">>, "ensureUserExists", AgentId, ""),
                   <<c, "user">>, "ensureUserExists", userId, ""),
               <<c, "room">>, "ensureRoomExists", "", roomId)
    /\ UNCHANGED <<dbAccounts, dbRooms, dbParticipants, dbWrites, idPc, gsVars, ppVars>>
    /\ UNCHANGED <<regVars, paVars, evVars, kVars, csVars, kgVars>>
    /\ UNCHANGED <<envVars, inVars, dVars, lkVars>>

\* its first Promise.all resolves: the second one is entered
ConnFirstAll(c) ==
    /\ enConn[c].pc = "first"
    /\ AllDone(c, {"agentUser", "user", "room"})
    /\ enConn' = [enConn EXCEPT ![c].pc = "second"]
    /\ enTasks' =
           StartTask(
               StartTask(enTasks, <<c, "userPart">>, "ensureParticipantInRoom",
                         enConn[c].user, enConn[c].room),
               <<c, "agentPart">>, "ensureParticipantInRoom", AgentId, enConn[c].room)
    /\ UNCHANGED <<dbAccounts, dbRooms, dbParticipants, dbWrites, idPc, gsVars, ppVars>>
    /\ UNCHANGED <<regVars, paVars, evVars, kVars, csVars, kgVars>>
    /\ UNCHANGED <<envVars, inVars, dVars, lkVars>>

\* its second Promise.all resolves: ensureConnection resolves
ConnSecondAll(c) ==
    /\ enConn[c].pc = "second"
    /\ AllDone(c, {"userPart", "agentPart"})
    /\ enConn' = [enConn EXCEPT ![c].pc = "done"]
    /\ UNCHANGED <<dbAccounts, dbRooms, dbParticipants, dbWrites, enTasks, idPc,
                   gsVars, ppVars>>
    /\ UNCHANGED <<regVars, paVars, evVars, kVars, csVars, kgVars>>
    /\ UNCHANGED <<envVars, inVars, dVars, lkVars>>

\* initializeDatabase(): ensureRoomExists and ensureUserExists are called
\* for the agent, neither is awaited
InitializeDatabaseStart ==
    /\ idPc' = "called"
    /\ enTasks' =
           StartTask(
               StartTask(enTasks, <<"db", "room">>, "ensureRoomExists", "", AgentId),
               <<"db", "user">>, "ensureUserExists", AgentId, "")

InitializeDatabaseCall ==
    /\ idPc = "idle"
    /\ InitializeDatabaseStart
    /\ UNCHANGED <<dbAccounts, dbRooms, dbParticipants, dbWrites, enConn, gsVars, ppVars>>
    /\ UNCHANGED <<regVars, paVars, evVars, kVars, csVars, kgVars>>
    /\ UNCHANGED <<envVars, inVars, dVars, lkVars>>

\* the then callback of its ensureUserExists call
IdThen ==
    /\ idPc = "called"
    /\ enTasks[<<"db", "user">>].pc = "done"
    /\ enTasks[<<"db", "part">>].pc = "none"
    /\ enTasks' = StartTask(enTasks, <<"db", "part">>, "ensureParticipantExists",
                            AgentId, AgentId)
    /\ UNCHANGED <<dbAccounts, dbRooms, dbParticipants, dbWrites, enConn, idPc,
                   gsVars, ppVars>>
    /\ UNCHANGED <<regVars, paVars, evVars, kVars, csVars, kgVars>>
    /\ UNCHANGED <<envVars, inVars, dVars, lkVars>>

\* the rest of the runtime, idle
RuntimeIdle ==
    /\ RegInit
    /\ PAIdle
    /\ EvIdle
    /\ KIdle
    /\ KEmptyStore
    /\ CSIdle
    /\ KGIdle
    /\ nodeEnv = TRUE
    /\ DefaultEnv
    /\ InIdle
    /\ DirIdle
    /\ LKIdle
    /\ GSIdle
    /\ PPIdle

\* the rooms clients connect users to
ClientRooms == {"r1", "r2"}

\* a database that holds every account and room, and any participants
InitParticipant ==
    /\ RuntimeIdle
    /\ EnsureIdle
    /\ dbAccounts = Users
    /\ dbRooms = RoomIds
    /\ dbParticipants \in SUBSET (Users \X ClientRooms)

NextParticipant ==
    \/ \E userId \in Users, roomId \in ClientRooms :
           EnsureParticipantExistsCall(userId, roomId)
    \/ \E t \in TaskIds : ELookupSettle(t)
    \/ \E t \in TaskIds : EWriteSettle(t)

\* ensureParticipantExists calls of a client
SpecParticipant == InitParticipant /\ [][NextParticipant]_vars

\* a new database, or one the agent was initialized on before
InitConnect ==
    /\ RuntimeIdle
    /\ EnsureIdle
    /\ \/ DbEmpty
       \/ /\ dbAccounts = {AgentId}
          /\ dbRooms = {AgentId}
          /\ dbParticipants = {<<AgentId, AgentId>>}

NextConnect ==
    \/ \E c \in ConnCalls, userId \in Users, roomId \in ClientRooms :
           EnsureConnectionCall(c, userId, roomId)
    \/ \E c \in ConnCalls : ConnFirstAll(c)
    \/ \E c \in ConnCalls : ConnSecondAll(c)
    \/ \E t \in TaskIds : ELookupSettle(t)
    \/ \E t \in TaskIds : EWriteSettle(t)

\* ensureConnection calls in flight together
SpecConnect == InitConnect /\ [][NextConnect]_vars

NextDatabase ==
    \/ InitializeDatabaseCall
    \/ IdThen
    \/ \E userId \in Users, roomId \in ClientRooms :
           EnsureConnectionCall("c1", userId, roomId)
    \/ ConnFirstAll("c1")
    \/ ConnSecondAll("c1")
    \/ \E t \in TaskIds : ELookupSettle(t)
    \/ \E t \in TaskIds : EWriteSettle(t)

\* initializeDatabase, and one ensureConnection call
SpecDatabase == InitConnect /\ [][NextDatabase]_vars

(***************************************************************************)
(* initialize (runtime.ts 453-572).                                        *)
(***************************************************************************)
\* the items of the given kind in a knowledge array, in order
RECURSIVE ItemsOfKind(_, _)
ItemsOfKind(items, kind) ==
    IF items = <<>> THEN <<>>
    ELSE IF Head(items).kind = kind
    THEN <<Head(items).value>> \o ItemsOfKind(Tail(items), kind)
    ELSE ItemsOfKind(Tail(items), kind)

\* directoryKnowledge, pathKnowledge and stringKnowledge of the reduce; a
\* knowledge that is no array, or an empty one, gives none
KnowledgeOfKind(knowledge, kind) ==
    IF knowledge.format = "array" THEN ItemsOfKind(knowledge.items, kind) ELSE <<>>

\* fileContents: the text of each path item
RECURSIVE FileContents(_)
FileContents(paths) ==
    IF paths = <<>> THEN <<>>
    ELSE <<FileText[Head(paths)]>> \o FileContents(Tail(paths))

\* the for loop over this.services.entries() at entry idx: it calls the
\* service's initialize, or, past the last entry, turns to the knowledge
InServiceLoop(entries, idx) ==
    /\ inIdx' = idx
    /\ IF idx <= Len(entries)
       THEN /\ inPc' = "service"
            /\ inStarted' = Append(inStarted, entries[idx])
       ELSE /\ inPc' = "dirs"
            /\ UNCHANGED inStarted

\* initialize()
InCall(entries, knowledge) ==
    /\ phase = "ready"
    /\ inPc = "idle"
    /\ Len(entries) = Cardinality(DOMAIN services)
    /\ Elements(entries) = DOMAIN services
    /\ inEntries' = entries
    /\ inKnowledge' = knowledge
    /\ idPc = "idle"
    /\ InitializeDatabaseStart
    /\ InServiceLoop(entries, 1)
    /\ UNCHANGED <<inFailed, inDirIdx, envVars, dVars, lkVars>>
    /\ UNCHANGED <<dbAccounts, dbRooms, dbParticipants, dbWrites, enConn, gsVars, ppVars>>
    /\ UNCHANGED <<regVars, paVars, evVars, kVars, csVars, kgVars>>

\* a catch that logs the failure of a service and goes on with the next
InServiceFailed_continue ==
    /\ inFailed' = TRUE
    /\ InServiceLoop(inEntries, inIdx + 1)

\* catch (error) { elizaLogger.error(...); throw error; }
InServiceFailed ==
    /\ inFailed' = TRUE
    /\ inPc' = "raised"
    /\ UNCHANGED <<inIdx, inStarted>>

\* await service.initialize(this) settles; on success
\* this.services.set(serviceType, service) rebinds the same service
InServiceSettle(outcome) ==
    /\ inPc = "service"
    /\ IF outcome = "throw"
       THEN InServiceFailed
       ELSE InServiceLoop(inEntries, inIdx + 1) /\ UNCHANGED inFailed
    /\ UNCHANGED <<inEntries, inKnowledge, inDirIdx, envVars, sysVars, dVars, lkVars>>
    /\ UNCHANGED <<regVars, paVars, evVars, kVars, csVars, kgVars>>

\* for (const dir of directoryKnowledge): the next directory is handed to
\* processCharacterKnowledgeDirectory, or the loop is over
InDirNext ==
    /\ inPc = "dirs"
    /\ IF inDirIdx < Len(KnowledgeOfKind(inKnowledge, "dir"))
       THEN /\ inDirIdx' = inDirIdx + 1
            /\ DirStart(KnowledgeOfKind(inKnowledge, "dir")[inDirIdx + 1])
            /\ inPc' = "dirWait"
       ELSE /\ inPc' = "paths"
            /\ UNCHANGED <<inDirIdx, dVars>>
    /\ UNCHANGED <<inEntries, inIdx, inStarted, inFailed, inKnowledge, envVars, sysVars,
                   lkVars>>
    /\ UNCHANGED <<regVars, paVars, evVars, kVars, csVars, kgVars>>

\* await this.processCharacterKnowledgeDirectory(dir) resumes
InDirReturned ==
    /\ inPc = "dirWait"
    /\ dPc \in {"done", "raised"}
    /\ inPc' = IF dPc = "raised" THEN "raised" ELSE "dirs"
    /\ UNCHANGED <<inEntries, inIdx, inStarted, inFailed, inKnowledge, inDirIdx,
                   envVars, sysVars, dVars, lkVars>>
    /\ UNCHANGED <<regVars, paVars, evVars, kVars, csVars, kgVars>>

\* if (pathKnowledge.length > 0): in node every file is read (a missing
\* file rejects the Promise.all) and the contents are handed to
\* processCharacterKnowledge; outside node an error is logged
InPaths ==
    /\ inPc = "paths"
    /\ IF KnowledgeOfKind(inKnowledge, "path") = <<>> \/ ~nodeEnv
       THEN inPc' = "strings" /\ UNCHANGED kVars
       ELSE IF \E p \in Elements(KnowledgeOfKind(inKnowledge, "path")) :
                   p \notin DOMAIN FileText
       THEN inPc' = "raised" /\ UNCHANGED kVars
       ELSE /\ inPc' = "pathsWait"
            /\ PckStart(FileContents(KnowledgeOfKind(inKnowledge, "path")))
            /\ UNCHANGED kCalls
    /\ UNCHANGED <<inEntries, inIdx, inStarted, inFailed, inKnowledge, inDirIdx,
                   envVars, sysVars, dVars, lkVars>>
    /\ UNCHANGED <<regVars, paVars, evVars, csVars, kgVars>>

\* if (stringKnowledge.length > 0) await this.processCharacterKnowledge(...)
InStrings ==
    /\ inPc = "strings"
    /\ IF KnowledgeOfKind(inKnowledge, "string") = <<>>
       THEN inPc' = "load" /\ UNCHANGED kVars
       ELSE /\ inPc' = "stringsWait"
            /\ PckStart(KnowledgeOfKind(inKnowledge, "string"))
            /\ UNCHANGED kCalls
    /\ UNCHANGED <<inEntries, inIdx, inStarted, inFailed, inKnowledge, inDirIdx,
                   envVars, sysVars, dVars, lkVars>>
    /\ UNCHANGED <<regVars, paVars, evVars, csVars, kgVars>>

\* await this.processCharacterKnowledge(...) resumes
InPckReturned ==
    /\ inPc \in {"pathsWait", "stringsWait"}
    /\ kPc = "idle"
    /\ inPc' = IF kRaised THEN "raised"
               ELSE IF inPc = "pathsWait" THEN "strings" ELSE "load"
    /\ UNCHANGED <<inEntries, inIdx, inStarted, inFailed, inKnowledge, inDirIdx,
                   envVars, sysVars, dVars, lkVars>>
    /\ UNCHANGED <<regVars, paVars, evVars, kVars, csVars, kgVars>>

\* await this.loadKnowledge(): the call
InLoad ==
    /\ inPc = "load"
    /\ inPc' = "loadWait"
    /\ LKStart(inKnowledge)
    /\ UNCHANGED <<inEntries, inIdx, inStarted, inFailed, inKnowledge, inDirIdx,
                   envVars, sysVars, dVars>>
    /\ UNCHANGED <<regVars, paVars, evVars, csVars, kgVars>>

\* await this.loadKnowledge() resumes; initialize returns
InLoadReturned ==
    /\ inPc = "loadWait"
    /\ lkPc \in {"done", "raised"}
    /\ inPc' = IF lkPc = "raised" THEN "raised" ELSE "done"
    /\ UNCHANGED <<inEntries, inIdx, inStarted, inFailed, inKnowledge, inDirIdx,
                   envVars, sysVars, dVars, lkVars>>
    /\ UNCHANGED <<regVars, paVars, evVars, kVars, csVars, kgVars>>

\* the service Maps initialize finds, with their entries in Map order
ServiceOrders == {<<>>, <<"speech">>, <<"speech", "browser">>, <<"browser", "speech">>}

\* character.knowledge as initialize finds it
InitConfigs ==
    { NoKnowledge,
      [format |-> "array", items |-> <<>>],
      [format |-> "array",
       items |-> << [kind |-> "dir", value |-> <<"s">>],
                    [kind |-> "path", value |-> "f1"],
                    [kind |-> "string", value |-> "t2"] >>],
      [format |-> "array",
       items |-> << [kind |-> "dir", value |-> <<"g">>],
                    [kind |-> "path", value |-> "missing"] >>],
      [format |-> "sources", items |-> << [path |-> "f1", content |-> ""] >>],
      [format |-> "sources", items |-> << [path |-> "", content |-> ""] >>] }

\* a constructed runtime with none, one or two services, inside or outside
\* node, over empty knowledge partitions
InitInitialize ==
    /\ phase = "ready"
    /\ actions = <<>>
    /\ evaluators = <<>>
    /\ providers = <<>>
    /\ adapters = <<>>
    /\ services \in {EmptyMap, "speech" :> "i1", ("speech" :> "i1") @@ ("browser" :> "i2")}
    /\ memoryManagers = EmptyMap
    /\ warned = {}
    /\ regRaised = FALSE
    /\ PAIdle
    /\ EvIdle
    /\ KIdle
    /\ KEmptyStore
    /\ CSIdle
    /\ KGIdle
    /\ nodeEnv \in BOOLEAN
    /\ DefaultEnv
    /\ InIdle
    /\ DirIdle
    /\ LKIdle
    /\ GSIdle
    /\ PPIdle
    /\ EnsureIdle
    /\ \/ DbEmpty
       \/ /\ dbAccounts = {AgentId}
          /\ dbRooms = {AgentId}
          /\ dbParticipants = {<<AgentId, AgentId>>}

NextInitialize ==
    \/ \E entries \in ServiceOrders, knowledge \in InitConfigs : InCall(entries, knowledge)
    \/ \E outcome \in {"ok", "throw"} : InServiceSettle(outcome)
    \/ InDirNext
    \/ InDirReturned
    \/ InPaths
    \/ InStrings
    \/ InPckReturned
    \/ InLoad
    \/ InLoadReturned
    \/ \E outcome \in {"ok", "throw"} : DGlobSettle(outcome)
    \/ \E f \in 1..MaxFiles, outcome \in {"ok", "throw"} : DFileImported(f, outcome)
    \/ \E f \in 1..MaxFiles, outcome \in {"answer", "throw"} : DFileProbed(f, outcome)
    \/ \E f \in 1..MaxFiles, outcome \in {"vec", "none", "throw"} : DFileEmbedded(f, outcome)
    \/ \E f \in 1..MaxFiles, outcome \in {"ok", "throw"} : DFileCreated(f, outcome)
    \/ DBatchSettle
    \/ \E outcome \in {"answer", "throw"} : KProbeSettle(outcome)
    \/ \E outcome \in {"vec", "none", "throw"} : KEmbedSettle(outcome)
    \/ \E outcome \in {"ok", "throw"} : KCreateSettle(outcome)
    \/ LKSetReturned
    \/ IdThen
    \/ \E t \in TaskIds : ELookupSettle(t)
    \/ \E t \in TaskIds : EWriteSettle(t)

\* one initialize call
SpecInitialize == InitInitialize /\ [][NextInitialize]_vars

(***************************************************************************)
(* getSetting (runtime.ts 743-759).  A layer maps each key to the value it *)
(* holds for it, if any; a value is a string.                              *)
(***************************************************************************)

\* what getSetting returns when it falls through every layer
NullSetting == [set |-> FALSE, value |-> "null"]

\* the values a layer may hold for a key
SettingValues == {Unset} \cup {[set |-> TRUE, value |-> v] : v \in {"", "a", "b"}}

\* the test if (layer[key]): a missing entry is undefined, and undefined
\* and the empty string are falsy
Truthy(entry) == entry.set /\ entry.value # ""

\* getSetting(key)
GetSetting(key) ==
    IF Truthy(gsSecrets[key]) THEN gsSecrets[key]
    ELSE IF Truthy(gsSettings[key]) THEN gsSettings[key]
    ELSE IF Truthy(gsProcess[key]) THEN gsProcess[key]
    ELSE NullSetting

\* one getSetting call
GetSettingCall(key) ==
    /\ gsKey' = key
    /\ gsResult' = GetSetting(key)
    /\ UNCHANGED <<gsSecrets, gsSettings, gsProcess, ppVars, dbVars>>
    /\ UNCHANGED <<regVars, paVars, evVars, kVars, csVars, kgVars>>
    /\ UNCHANGED <<envVars, inVars, dVars, lkVars>>

\* a constructed runtime over any three layers
InitSettings ==
    /\ RegInit
    /\ PAIdle
    /\ EvIdle
    /\ KIdle
    /\ KEmptyStore
    /\ CSIdle
    /\ KGIdle
    /\ nodeEnv = TRUE
    /\ DefaultEnv
    /\ InIdle
    /\ DirIdle
    /\ LKIdle
    /\ PPIdle
    /\ EnsureIdle
    /\ DbEmpty
    /\ gsSecrets \in [SettingKeys -> SettingValues]
    /\ gsSettings \in [SettingKeys -> SettingValues]
    /\ gsProcess \in [SettingKeys -> SettingValues]
    /\ gsKey = ""
    /\ gsResult = Unset

NextSettings == \E key \in SettingKeys : GetSettingCall(key)

\* getSetting calls
SpecSettings == InitSettings /\ [][NextSettings]_vars

(***************************************************************************)
(* preprocess (runtime.ts 1731-1774).  Its argument is a value of any      *)
(* type; a string is its characters over the alphabet A, b, space,         *)
(* backtick and !.  The replacements whose pattern needs a character       *)
(* outside this alphabet (#, [, <, ., /, -, *, _, a line break) leave      *)
(* every such string as it is and are not written out.                     *)
(***************************************************************************)

\* the longest string preprocess is called with
MaxText == 3

\* the grave accent character (U+0060), written by its name
Backtick == "grave"

TextAlphabet == {"A", "b", " ", Backtick, "!"}

PreprocessInputs ==
    {[type |-> ty, chars |-> <<>>] : ty \in {"null", "undefined", "object"}}
    \cup {[type |-> "number", chars |-> n] : n \in {<<"0">>, <<"5">>}}
    \cup {[type |-> "string", chars |-> s] : s \in SeqsUpTo(TextAlphabet, MaxText)}

\* !content
Falsy(content) ==
    \/ content.type \in {"null", "undefined"}
    \/ content.type = "string" /\ content.chars = <<>>
    \/ content.type = "number" /\ content.chars = <<"0">>

\* the first index from which on pat occurs in s at or after from, or 0
IndexOfFrom(s, pat, from) ==
    LET hits == {i \in from..(Len(s) - Len(pat) + 1) : SubSeq(s, i, i + Len(pat) - 1) = pat}
    IN IF hits = {} THEN 0 ELSE CHOOSE i \in hits : \A j \in hits : i <= j

\* s.replace(/D[\s\S]*?D/g, "") for a delimiter D: leftmost matches, each
\* up to the nearest closing delimiter
RECURSIVE RemoveDelimited(_, _)
RemoveDelimited(s, delim) ==
    LET open == IndexOfFrom(s, delim, 1)
        close == IF open = 0 THEN 0 ELSE IndexOfFrom(s, delim, open + Len(delim))
    IN IF close = 0 THEN s
       ELSE SubSeq(s, 1, open - 1)
            \o RemoveDelimited(SubSeq(s, close + Len(delim), Len(s)), delim)

\* s.replace(/\s+/g, " ")
RECURSIVE CollapseSpaces(_)
CollapseSpaces(s) ==
    IF Len(s) < 2 THEN s
    ELSE IF s[1] = " " /\ s[2] = " " THEN CollapseSpaces(Tail(s))
    ELSE <<s[1]>> \o CollapseSpaces(Tail(s))

\* s.replace(/[^a-zA-Z0-9\s\-_./:?=&]/g, "")
RemoveSpecial(s) == SelectSeq(s, LAMBDA c : c \notin {Backtick, "!"})

\* s.trim()
RECURSIVE Trim(_)
Trim(s) ==
    IF s = <<>> THEN s
    ELSE IF Head(s) = " " THEN Trim(Tail(s))
    ELSE IF s[Len(s)] = " " THEN Trim(SubSeq(s, 1, Len(s) - 1))
    ELSE s

\* the chain of replacements applied to a non-empty string
Clean(s) ==
    ToLowerCase(
        Trim(
            RemoveSpecial(
                CollapseSpaces(
                    RemoveDelimited(RemoveDelimited(s, <<Backtick, Backtick, Backtick>>), <<Backtick>>)))))

\* preprocess without its guard: replace is called on the argument as given
Preprocess_unguarded(content) ==
    IF content.type = "string"
    THEN [threw |-> FALSE, chars |-> Clean(content.chars)]
    ELSE [threw |-> TRUE, chars |-> <<>>]

\* preprocess(content)
Preprocess(content) ==
    IF Falsy(content) \/ content.type # "string"
    THEN [threw |-> FALSE, chars |-> <<>>]
    ELSE [threw |-> FALSE, chars |-> Clean(content.chars)]

\* the call before this one, when it had the same argument
NoPrev == [input |-> NoInput, result |-> NoOutput]

\* one preprocess call
PreprocessCall(content) ==
    /\ ppPrev' = IF content = ppInput
                 THEN [input |-> ppInput, result |-> ppResult]
                 ELSE NoPrev
    /\ ppInput' = content
    /\ ppResult' = Preprocess(content)
    /\ UNCHANGED <<gsVars, dbVars>>
    /\ UNCHANGED <<regVars, paVars, evVars, kVars, csVars, kgVars>>
    /\ UNCHANGED <<envVars, inVars, dVars, lkVars>>

InitPreprocess ==
    /\ RegInit
    /\ PAIdle
    /\ EvIdle
    /\ KIdle
    /\ KEmptyStore
    /\ CSIdle
    /\ KGIdle
    /\ BootIdle

NextPreprocess == \E content \in PreprocessInputs : PreprocessCall(content)

\* preprocess calls
SpecPreprocess == InitPreprocess /\ [][NextPreprocess]_vars

(***************************************************************************)
(* Properties.                                                             *)
(***************************************************************************)
\* the records of a partition that carry id
RecordsWithId(partition, id) == {i \in 1..Len(partition) : partition[i].id = id}

C2_ReingestionIsNoOp == kRedundant = {}

\* C3: the actions list holds at most one entry per action name and the
\* evaluators list at most one entry per evaluator name.
C3_OneEntryPerName ==
    /\ \A i, j \in 1..Len(actions) : actions[i].name = actions[j].name => i = j
    /\ \A i, j \in 1..Len(evaluators) :
           evaluators[i].name = evaluators[j].name => i = j

\* C4: no step rebinds or removes a key of services or memoryManagers (the
\* first registered instance stays bound), and a registration that finds
\* its key present (it logs the warning) changes neither map and does not
\* throw.
C4_RegisterIsSkip ==
    [][ /\ \A k \in DOMAIN services :
               k \in DOMAIN services' /\ services'[k] = services[k]
        /\ \A k \in DOMAIN memoryManagers :
               k \in DOMAIN memoryManagers' /\ memoryManagers'[k] = memoryManagers[k]
        /\ (phase = "ready" /\ warned' # warned) =>
               /\ services' = services
               /\ memoryManagers' = memoryManagers
               /\ ~regRaised'
      ]_vars

\* a service and a memory manager were both registered under a key already
\* present, and both keys are still bound
C4_Witness ==
    /\ phase = "ready"
    /\ ~regRaised
    /\ \E k \in DOMAIN services : <<"service", k>> \in warned
    /\ \E t \in DOMAIN memoryManagers : <<"manager", t>> \in warned

\* C5 as stated: with didRespond false validate is invoked on no evaluator
\* whose alwaysRun is false, and validate is invoked on every registered
\* evaluator whose alwaysRun is true.
C5_Original ==
    evPc # "idle" =>
        /\ ~evDidRespond => \A i \in evValidated : evaluators[i].alwaysRun
        /\ \A i \in 1..Len(evaluators) :
               evaluators[i].alwaysRun => i \in evValidated

\* C5 amended: with didRespond false validate is invoked on no evaluator
\* whose alwaysRun is false, and validate is invoked on every registered
\* evaluator whose alwaysRun is true and that has a handler, whatever
\* didRespond.
C5_Gating ==
    evPc # "idle" =>
        /\ ~evDidRespond => \A i \in evValidated : evaluators[i].alwaysRun
        /\ \A i \in 1..Len(evaluators) :
               (evaluators[i].alwaysRun /\ evaluators[i].hasHandler)
                   => i \in evValidated

\* evaluate ran with didRespond false: an alwaysRun evaluator was validated
\* and an evaluator with a handler and alwaysRun false was not
C5_Witness ==
    /\ evPc # "idle"
    /\ ~evDidRespond
    /\ \E i \in evValidated : evaluators[i].alwaysRun
    /\ \E j \in 1..Len(evaluators) :
           /\ ~evaluators[j].alwaysRun
           /\ evaluators[j].hasHandler
           /\ j \notin evValidated

\* C6: evaluate invokes an evaluator's handler only if the evaluator was a
\* candidate of this call and its name is in the list the generation step
\* returned.
C6_HandlerOnlyForCandidates ==
    \A j \in 1..Len(evHandled) :
        /\ evHandled[j] \in evCandidates
        /\ NameSelected(evNames, evaluators[evHandled[j]])

\* C7: when no evaluator becomes a candidate, evaluate returns the empty
\* list, makes no generateText call and invokes no handler.
C7_NoCandidatesSkips ==
    (evPc \notin {"idle", "validating", "raised"} /\ evCandidates = {}) =>
        /\ evPc = "done"
        /\ evReturned = "empty"
        /\ evGenCalls = 0
        /\ evHandled = <<>>

\* evaluate validated some evaluator, none became a candidate, and it
\* returned the empty list
C7_Witness ==
    /\ evPc = "done"
    /\ evValidated # {}
    /\ evCandidates = {}
    /\ evReturned = "empty"

\* the response r of the processActions call has been dealt with
PAProcessed(r) == r < paIdx \/ (r = paIdx /\ paPc = "await")

\* some registered action matches the label of response r by name
PANameMatched(r) ==
    \E i \in 1..Len(actions) : NameMatch(actions[i], Normalize(paResponses[r]))

\* C8: when the label of a response matches a registered action by name,
\* the handler invoked for it belongs to an action matched by name (never to
\* one matched only through a simile), wherever the two are registered; and
\* a handler is invoked when the actions matched by name have one.
C8_NamePrecedence ==
    /\ \A j \in 1..Len(paLog) :
           PANameMatched(paLog[j].resp) =>
               NameMatch(actions[paLog[j].act], Normalize(paResponses[paLog[j].resp]))
    /\ \A r \in 1..Len(paResponses) :
           ( /\ PAProcessed(r)
             /\ paResponses[r] # <<>>
             /\ PANameMatched(r)
             /\ \A i \in 1..Len(actions) :
                    NameMatch(actions[i], Normalize(paResponses[r]))
                        => actions[i].hasHandler )
           => \E j \in 1..Len(paLog) : paLog[j].resp = r

\* a handler ran for an action matched by name although an action
\* registered before it matches the label through a simile only
C8_Witness ==
    \E j \in 1..Len(paLog) :
        LET norm == Normalize(paResponses[paLog[j].resp])
        IN  /\ NameMatch(actions[paLog[j].act], norm)
            /\ \E i \in 1..(paLog[j].act - 1) :
                   /\ SimileHit(actions[i], norm)
                   /\ ~NameMatch(actions[i], norm)

\* C9: handlers run one at a time in the order of the responses list: at
\* most one handler is in flight, handlers are started in increasing
\* response order, and a handler is started only after every handler
\* started before it has settled.
C9_Sequential ==
    /\ Cardinality(paInFlight) <= 1
    /\ \A j \in 1..(Len(paLog) - 1) :
           /\ paLog[j].resp < paLog[j + 1].resp
           /\ paLog[j].status # "running"
    /\ \A i \in paInFlight : paPc = "await" /\ i = paIdx

\* two handlers have run to completion in one processActions call
C9_Witness ==
    /\ paPc = "done"
    /\ Len(paLog) = 2
    /\ paLog[1].resp = 1
    /\ paLog[2].resp = 2

\* the label of response r resolves to an action that has a handler
PARunnable(r) ==
    /\ paResponses[r] # <<>>
    /\ ResolveAction(actions, paResponses[r]) # 0
    /\ actions[ResolveAction(actions, paResponses[r])].hasHandler

\* C10: a handler that throws or rejects does not make processActions
\* raise, and the handler of every later response still runs:
\* processActions completes with a handler invoked for every response that
\* resolves to an action with a handler.
C10_ThrowIsolated ==
    /\ paPc # "raised"
    /\ paPc = "done" =>
           \A r \in 1..Len(paResponses) :
               PARunnable(r) => \E j \in 1..Len(paLog) : paLog[j].resp = r

\* processActions completed although the first handler threw, and the
\* handler of a later response ran after it
C10_Witness ==
    /\ paPc = "done"
    /\ \E j \in 1..Len(paLog) : \E h \in (j + 1)..Len(paLog) :
           /\ paLog[j].status = "threw"
           /\ paLog[h].status \in {"ok", "threw"}

\* s with every underscore removed
StripUnderscores(s) == SelectSeq(s, LAMBDA c : c # "_")

\* s lower-cased and with every underscore removed
FullyNormalized(s) == StripUnderscores(ToLowerCase(s))

\* the name or a simile of action a equals the label of response r after
\* lower-casing and removing every underscore
PAEqualIgnoringUnderscores(a, r) ==
    \/ FullyNormalized(a.name) = FullyNormalized(paResponses[r])
    \/ \E j \in 1..Len(a.similes) :
           FullyNormalized(a.similes[j]) = FullyNormalized(paResponses[r])

\* C11: a label and a registered action name (or simile) that become equal
\* after lower-casing and removing every underscore resolve to an action:
\* the lookup finds one, and its handler (if it has one) is invoked.
C11_IgnoresUnderscores ==
    \A r \in 1..Len(paResponses) :
        ( /\ PAProcessed(r)
          /\ paResponses[r] # <<>>
          /\ \E i \in 1..Len(actions) : PAEqualIgnoringUnderscores(actions[i], r) )
        => /\ ResolveAction(actions, paResponses[r]) # 0
           /\ actions[ResolveAction(actions, paResponses[r])].hasHandler
                  => \E j \in 1..Len(paLog) : paLog[j].resp = r

\* response r carries no label, or its label matches no action name and no
\* simile, or the action it resolves to has no handler
PASkipped(r) ==
    \/ paResponses[r] = <<>>
    \/ \A i \in 1..Len(actions) :
           /\ ~NameMatch(actions[i], Normalize(paResponses[r]))
           /\ \A j \in 1..Len(actions[i].similes) :
                  ~SimileMatch(actions[i].similes[j], Normalize(paResponses[r]))
    \/ /\ ResolveAction(actions, paResponses[r]) # 0
       /\ ~actions[ResolveAction(actions, paResponses[r])].hasHandler

\* C12: a response without a label, with a label that matches no action
\* name and no simile, or whose matched action has no handler, causes no
\* handler invocation and no exception, and the responses after it are
\* still processed: when processActions completes, a handler was invoked
\* for every later response that resolves to an action with a handler.
C12_UnmatchedSkipped ==
    /\ paPc # "raised"
    /\ \A r \in 1..Len(paResponses) :
           PASkipped(r) =>
               /\ \A j \in 1..Len(paLog) : paLog[j].resp # r
               /\ ~(paPc = "await" /\ paIdx = r)
               /\ paPc = "done" =>
                      \A q \in (r + 1)..Len(paResponses) :
                          PARunnable(q) => \E j \in 1..Len(paLog) : paLog[j].resp = q

\* processActions completed: its first response was skipped and the
\* handler of the second one ran
C12_Witness ==
    /\ paPc = "done"
    /\ Len(paResponses) = 2
    /\ PASkipped(1)
    /\ paResponses[1] # <<>>
    /\ \E j \in 1..Len(paLog) : paLog[j].resp = 2

\* the message of the room that has this id, as the store holds it
StoredMessage(id) == csStore[CHOOSE i \in 1..Len(csStore) : csStore[i].id = id]

\* the createdAt of the most recent message of data that carries attachments
LatestAttachmentTime(data) ==
    CHOOSE t \in Times :
        /\ \E i \in 1..Len(data) :
               HasAttachments(StoredMessage(data[i].id)) /\ data[i].createdAt = t
        /\ \A i \in 1..Len(data) :
               HasAttachments(StoredMessage(data[i].id)) => data[i].createdAt <= t

\* C13: after composeState, with T the createdAt of the most recent
\* retrieved message that carries attachments, every attachment of a
\* retrieved message with createdAt < T - 3600000 has the text "[Hidden]",
\* and every attachment of a message with createdAt >= T - 3600000 keeps
\* the text the store holds for it.
C13_RedactionWindow ==
    csPc = "done" =>
        LET data == csState.recentMessagesData
        IN  (\E i \in 1..Len(data) : HasAttachments(StoredMessage(data[i].id))) =>
                \A i \in 1..Len(data) :
                    IF data[i].createdAt < LatestAttachmentTime(data) - OneHour
                    THEN \A j \in 1..Len(data[i].attachments) :
                             data[i].attachments[j] = "[Hidden]"
                    ELSE data[i].attachments = StoredMessage(data[i].id).attachments

\* composeState returned a snapshot in which the attachments of one message
\* are hidden and those of a message exactly one hour before the reference
\* message are kept
C13_Witness ==
    /\ csPc = "done"
    /\ LET data == csState.recentMessagesData
       IN  /\ \E i \in 1..Len(data) :
                  /\ HasAttachments(data[i])
                  /\ \A j \in 1..Len(data[i].attachments) :
                         data[i].attachments[j] = "[Hidden]"
           /\ \E i \in 1..Len(data) :
                  /\ HasAttachments(data[i])
                  /\ data[i].createdAt = LatestAttachmentTime(data) - OneHour
                  /\ data[i].attachments = StoredMessage(data[i].id).attachments

\* the fields updateRecentMessageState replaces
RefreshedFields == {"recentMessages", "recentMessagesData", "attachments"}

\* C14: updateRecentMessageState returns a new snapshot and leaves the one
\* it was given as it was; every field of the result other than
\* recentMessages, recentMessagesData and attachments has the input's value.
C14_RefreshIsPure ==
    urPc = "done" =>
        /\ csState = urInput
        /\ DOMAIN urOut = DOMAIN urInput \cup RefreshedFields
        /\ \A f \in DOMAIN urInput \ RefreshedFields : urOut[f] = urInput[f]

\* updateRecentMessageState returned a snapshot whose recent messages
\* differ from those of the snapshot it was given, which carries a
\* caller-supplied field
C14_Witness ==
    /\ urPc = "done"
    /\ "extra" \in DOMAIN urInput
    /\ urOut.recentMessagesData # urInput.recentMessagesData
    /\ urOut.attachments # urInput.attachments

\* the validate calls and the providers step of composeState have settled
CSJoined == csOutcomes # NoOutcomes

\* listed holds the names of exactly the capabilities of caps whose validate
\* resolved true, in the order of caps
ListsValidated(listed, caps, outcomes) ==
    /\ \A i \in 1..Len(caps) :
           outcomes[i] = "true" <=> \E j \in 1..Len(listed) : listed[j] = caps[i].name
    /\ \A j \in 1..Len(listed) : \E i \in 1..Len(caps) : caps[i].name = listed[j]
    /\ \A j, k \in 1..Len(listed) :
           j < k => \E i, h \in 1..Len(caps) :
                        /\ i < h
                        /\ caps[i].name = listed[j]
                        /\ caps[h].name = listed[k]

\* C15: when the validate of an action or of an evaluator throws or
\* rejects, composeState still returns a snapshot, and the snapshot lists
\* every capability whose validate resolved true and not the failing one.
C15_FailuresIsolated ==
    CSJoined =>
        /\ csPc = "done"
        /\ ListsValidated(csState.actionNames.body, actions, csOutcomes.actions)
        /\ ListsValidated(Names(csState.evaluatorsData), evaluators,
                          csOutcomes.evaluators)

C18_GetNeverRaises ==
    /\ kgPc # "raised"
    /\ ( /\ kgPc \notin {"idle", "embed", "search"}
         /\ \/ kgArgs.text = "invalid"
            \/ kgOutcomes.embed = "throws"
            \/ kgOutcomes.search = "throws" )
       => kgPc = "done" /\ kgResult = <<>>

\* knowledge.get resolved to the empty list after its similarity search
\* rejected
C18_Witness ==
    /\ kgPc = "done"
    /\ kgOutcomes.search = "throws"
    /\ Len(kgSearches) = 1
    /\ kgResult = <<>>

\* C19: without a threshold or count from the caller the similarity search
\* is invoked with match_threshold 0.1 and count 5; a threshold or count
\* the caller supplies is passed to the search unchanged.
C19_ThresholdAndCount ==
    \A i \in 1..Len(kgSearches) :
        /\ kgSearches[i].match_threshold =
               IF kgArgs.options.match_threshold = Undefined
               THEN 10 ELSE kgArgs.options.match_threshold
        /\ kgSearches[i].count =
               IF kgArgs.options.count = Undefined
               THEN 5 ELSE kgArgs.options.count

\* C20: the similarity search is always scoped to a room: the roomId the
\* caller supplied when there is one, otherwise the agent's own room, also
\* when the caller passes options that set other fields but no roomId.
C20_SearchScopedToRoom ==
    \A i \in 1..Len(kgSearches) :
        kgSearches[i].roomId =
            IF kgArgs.options.roomId # "undefined"
            THEN kgArgs.options.roomId ELSE "agent"

\* C21: when get is called with useAgentFilter set, the similarity search
\* is invoked with agentId equal to the message's agentId; without the flag
\* no agentId restriction is passed.
C21_AgentFilter ==
    \A i \in 1..Len(kgSearches) :
        IF kgArgs.options.useAgentFilter
        THEN /\ "agentId" \in DOMAIN kgSearches[i]
             /\ kgSearches[i].agentId = kgArgs.agentId
        ELSE "agentId" \notin DOMAIN kgSearches[i]

\* C22: the record knowledge.set passes to createMemory always carries an
\* embedding: for an item that came without one, the embedding computed
\* from its text.
C22_PersistsEmbedding == kPc = "create" => kItem.embedded

\* the item knowledge.set received has a source and no text
KNeedsLoad == kGiven.source # "" /\ kGiven.text = ""

\* C23: for an item with a source and no text, knowledge.set reaches the
\* embedding lookup and createMemory only after loadContent has supplied
\* the text; loadContent returns the inline content (source 'inline', type
\* 'static') when content is given, otherwise the file's text with the path
\* as source, and raises when there is neither path nor content or the file
\* is absent; set then raises and never reaches createMemory.
C23_LoaderBeforeStore ==
    /\ (KNeedsLoad /\ kPc \in {"embed", "create"}) =>
           /\ kLoaded.called
           /\ kLoaded.source.path = kGiven.source
           /\ kLoaded.result.ok
           /\ kItem.text = kLoaded.result.text
    /\ (KNeedsLoad /\ kGiven.source \notin DOMAIN FileText) =>
           /\ kPc \in {"load", "idle"}
           /\ kPc = "idle" => kRaised
           /\ ~HasMemory(fragments, kGiven.id)
    /\ kLoaded.called =>
           IF kLoaded.source.content # ""
           THEN /\ kLoaded.result.ok
                /\ kLoaded.result.text = kLoaded.source.content
                /\ kLoaded.result.source = "inline"
                /\ kLoaded.result.type = "static"
           ELSE IF kLoaded.source.path \in DOMAIN FileText
           THEN /\ kLoaded.result.ok
                /\ kLoaded.result.text = FileText[kLoaded.source.path]
                /\ kLoaded.result.source = kLoaded.source.path
           ELSE ~kLoaded.result.ok

\* a set call for a file item sits at createMemory with the text the loader
\* returned for its path
C23_Witness ==
    /\ KNeedsLoad
    /\ kLoaded.called
    /\ kPc = "create"
    /\ kItem.text = FileText[kGiven.source]

\* the callback of the file is suspended on an await
InFlight(f) == dFile[f].pc \in {"import", "probe", "embed", "create"}

\* C25: the failure of one file never makes the directory ingestion raise,
\* and when the ingestion has completed every file of every batch has been
\* taken up and has settled, the failed ones included.
C25_FileFailureIsolated ==
    (\E f \in DOMAIN dFile : dFile[f].pc = "failed") =>
        /\ dPc # "raised"
        /\ dPc = "done" => \A g \in DOMAIN dFile : FileSettled(g)

\* the ingestion has completed although a file of the first batch failed,
\* and a file of the second batch was processed to its end
C25_Witness ==
    /\ dPc = "done"
    /\ \E f \in DOMAIN dFile : f <= BATCH_SIZE /\ dFile[f].pc = "failed"
    /\ \E g \in DOMAIN dFile : g > BATCH_SIZE /\ dFile[g].pc = "done"
    /\ \E g \in DOMAIN dFile : g <= BATCH_SIZE /\ HasMemory(fragments, DirItem(g).id)

\* C26: a directory that does not exist under the knowledge root makes
\* processCharacterKnowledgeDirectory raise: the call never completes
\* normally for it.
C26_MissingDirectoryRaises ==
    (dDir # <<>> /\ RemoveDotDot(dDir) \notin DOMAIN DirListing) => dPc # "done"

\* the batch a file belongs to
BatchNo(f) == (f - 1) \div BATCH_SIZE

\* C27: at most BATCH_SIZE (5) files are in flight at any time, and a file
\* of a later batch has been started only when every file of the earlier
\* batches has settled.
C27_BatchesOfFive ==
    /\ Cardinality({f \in DOMAIN dFile : InFlight(f)}) <= BATCH_SIZE
    /\ \A f, g \in DOMAIN dFile :
           (BatchNo(f) < BatchNo(g) /\ dFile[g].pc # "pending") => FileSettled(f)

\* five files are in flight while a sixth waits for its batch
C27_Witness ==
    /\ Cardinality({f \in DOMAIN dFile : InFlight(f)}) = BATCH_SIZE
    /\ \E g \in DOMAIN dFile : dFile[g].pc = "pending"

\* loadKnowledge cannot read the source: it has neither path nor content,
\* or its path names an absent file
BadSource(source) ==
    \/ source.path = "" /\ source.content = ""
    \/ source.path # "" /\ source.path \notin DOMAIN FileText

\* C28: loadKnowledge raises as soon as its loop reaches a source with
\* neither path nor content or with the path of an absent file: it never
\* completes normally, knowledge.set is called neither for that source nor
\* for a later one, and no record of theirs is stored.
C28_BadSourceIsFatal ==
    \A i \in 1..Len(lkSources) :
        BadSource(lkSources[i]) =>
            /\ lkPc # "done"
            /\ lkIdx <= i
            /\ lkIdx = i => lkPc = "raised"
            /\ \A j \in Elements(lkSets) : j < i
            /\ \A j \in i..Len(lkSources) : ~HasMemory(fragments, V4(j))

\* the second source cannot be read: loadKnowledge has raised after the
\* first source was stored
C28_Witness ==
    /\ lkPc = "raised"
    /\ Len(lkSources) = 2
    /\ lkIdx = 2
    /\ BadSource(lkSources[2])
    /\ HasMemory(fragments, V4(1))

\* C24: once a service's initialize has thrown, initialize has rejected, no
\* service after the failing one has been initialized, and no knowledge
\* has been ingested: no directory, string or source ingestion was started
\* and nothing was stored.
C24_ServiceFailureIsFatal ==
    inFailed =>
        /\ inPc = "raised"
        /\ inStarted = SubSeq(inEntries, 1, inIdx)
        /\ dPc = "idle" /\ lkPc = "idle" /\ kPc = "idle"
        /\ fragments = <<>>
        /\ \A id \in KnowledgeIds : kSetDone[id] = 0

\* the first of two services failed while the character has knowledge to
\* ingest
C24_Witness ==
    /\ inFailed
    /\ Len(inEntries) = 2
    /\ inIdx = 1
    /\ inKnowledge.format = "array"
    /\ inKnowledge.items # <<>>

\* the formatted fields of the snapshot
FormattedFields ==
    {"lore", "adjective", "topic", "topics", "senderName", "actors", "goals",
     "recentMessages", "recentPosts", "attachments"}

\* the value is a string
IsString(v) == DOMAIN v = {"header", "body"}

\* C29: every formatted field of the snapshot composeState returns is a
\* string, and it is the empty string when its data is missing: no topics,
\* adjectives or lore in the character, a sender that is not among the
\* actors of the room, no goals, messages or attachments.
C29_FormattedFieldsAreStrings ==
    csPc = "done" =>
        /\ \A f \in FormattedFields : IsString(csState[f])
        /\ character.topics = <<>> =>
               csState.topic = EmptyText /\ csState.topics = EmptyText
        /\ character.adjectives = <<>> => csState.adjective = EmptyText
        /\ character.lore = <<>> => csState.lore = EmptyText
        /\ (\A i \in 1..Len(roomActors) : roomActors[i].id # Sender) =>
               csState.senderName = EmptyText
        /\ csState.goals = EmptyText
        /\ csRecent = <<>> => csState.recentMessages = EmptyText
        /\ csAttachments = <<>> => csState.attachments = EmptyText

\* C30: a selected evaluator's handler that throws does not end evaluate:
\* whatever the awaited handler settles with, evaluate does not raise but
\* goes on with the remaining evaluators and returns the selected names.
C30_HandlerThrowIsolated == [][evPc = "await" => evPc' # "raised"]_vars

\* the layers in the order getSetting consults them
Layers == <<gsSecrets, gsSettings, gsProcess>>

\* C31: getSetting returns the value of the first layer in which the key is
\* set, an earlier layer always winning over a later one, and null when no
\* layer sets the key.
C31_FirstSetLayerWins ==
    gsKey # "" =>
        IF \E l \in 1..3 : Layers[l][gsKey].set
        THEN LET first == CHOOSE l \in 1..3 :
                              /\ Layers[l][gsKey].set
                              /\ \A e \in 1..(l - 1) : ~Layers[e][gsKey].set
             IN gsResult = Layers[first][gsKey]
        ELSE gsResult = NullSetting

\* C32: after ensureParticipantExists(userId, roomId) completes, userId is a
\* participant of roomId, whatever other rooms the user participates in.
C32_ParticipantAfterEnsure ==
    LET task == enTasks[<<"client", "part">>]
    IN task.pc = "done" => <<task.user, task.room>> \in dbParticipants

\* the entity a write creates is in the database
Exists(w) ==
    CASE w[1] = "createAccount" -> w[2] \in dbAccounts
      [] w[1] = "createRoom" -> w[3] \in dbRooms
      [] OTHER -> <<w[2], w[3]>> \in dbParticipants

\* C33: the ensure operations never delete and issue createAccount,
\* createRoom and addParticipant only for an entity the database does not
\* hold; and once ensureConnection(userId, roomId) has resolved, the
\* accounts of the user and of the agent exist, the room exists, and both
\* are participants of it.
C33_CreateIfAbsent ==
    [][/\ dbAccounts \subseteq dbAccounts'
       /\ dbRooms \subseteq dbRooms'
       /\ dbParticipants \subseteq dbParticipants'
       /\ \A w \in Writes : dbWrites'[w] > dbWrites[w] => ~Exists(w)
       /\ \A c \in ConnCalls :
              enConn'[c].pc = "done" =>
                  /\ {AgentId, enConn'[c].user} \subseteq dbAccounts'
                  /\ enConn'[c].room \in dbRooms'
                  /\ <<AgentId, enConn'[c].room>> \in dbParticipants'
                  /\ <<enConn'[c].user, enConn'[c].room>> \in dbParticipants']_vars

\* an ensureConnection call has resolved on a database that held the
\* agent's account and not the room: no account was created for the agent,
\* and the room was
C33_Witness ==
    \E c \in ConnCalls :
        /\ enConn[c].pc = "done"
        /\ dbWrites[<<"createAccount", AgentId, "">>] = 0
        /\ dbWrites[<<"createRoom", "", enConn[c].room>>] > 0
        /\ enConn[c].room \in dbRooms

\* C38: however concurrent ensureConnection calls and the ensure calls
\* inside them interleave, createRoom is issued at most once per room,
\* createAccount at most once per account and addParticipant at most once
\* per pair of user and room.
C38_WritesAtMostOnce == \A w \in Writes : dbWrites[w] <= 1

\* C39: addParticipant is never issued while the account of the user or
\* the room is not in the database yet, neither by initializeDatabase nor
\* by ensureConnection.
C39_ParticipantAfterAccountAndRoom ==
    [][\A u \in Users, r \in RoomIds :
           dbWrites'[<<"addParticipant", u, r>>] > dbWrites[<<"addParticipant", u, r>>]
               => u \in dbAccounts /\ r \in dbRooms]_vars

\* C34: preprocess never throws; for an empty string, null, undefined or a
\* value that is not a string it returns the empty string; a call with the
\* argument of the call before it returns what that call returned; and a
\* call changes nothing but its own result.
C34_PreprocessTotal ==
    [][/\ ~ppResult'.threw
       /\ (ppInput'.type # "string" \/ ppInput'.chars = <<>>) => ppResult'.chars = <<>>
       /\ ppPrev'.input = ppInput' => ppPrev'.result = ppResult'
       /\ UNCHANGED <<gsVars, dbVars, regVars, paVars, evVars, kVars, csVars, kgVars,
                      envVars, inVars, dVars, lkVars>>]_vars

\* preprocess(null) was called twice in a row and returned ""
C34_Witness ==
    /\ ppInput.type = "null"
    /\ ppPrev.input = ppInput
    /\ ppResult = [threw |-> FALSE, chars |-> <<>>]

\* preprocess is not the identity on strings: code spans, a run of blanks,
\* special characters and upper case are rewritten
PreprocessRewrites ==
    /\ Clean(<<"A", Backtick, "b", Backtick, "!">>) = <<"a">>
    /\ Clean(<<"A", " ", " ", "b", " ">>) = <<"a", " ", "b">>
    /\ Clean(<<Backtick, "A">>) = <<"a">>

\* the ids of the messages of a list, in its order
IdsOf(msgs) == [i \in 1..Len(msgs) |-> msgs[i].id]

\* C37: the recentMessagesData of the snapshot composeState returned is in
\* the recent-first order the store returned the messages in, whether or
\* not a message carries attachments.
C37_SnapshotKeepsStoreOrder ==
    csPc = "done" =>
        \E n \in 0..Len(csStore) :
            IdsOf(csState.recentMessagesData)
                = IdsOf(SubSeq(GetMemories(csStore), n + 1, Len(csStore)))

\* the attachment texts of a list of messages
AttachmentTexts(msgs) == UNION {Elements(msgs[i].attachments) : i \in 1..Len(msgs)}

\* C35: no step of composeState and no step of updateRecentMessageState
\* writes to a store: the room's messages (and so the texts of their
\* attachments), the knowledge partitions, the accounts, the rooms and the
\* participants are after the step what they were before it.
C35_ComposeWritesNothing ==
    [][(csPc' # csPc \/ urPc' # urPc) =>
           UNCHANGED <<csStore, fragments, documents, dbAccounts, dbRooms,
                       dbParticipants, dbWrites>>]_vars

\* composeState and updateRecentMessageState have returned, the snapshot
\* holds a redacted attachment, and no message of the store does
C35_Witness ==
    /\ csPc = "done"
    /\ urPc = "done"
    /\ "[Hidden]" \in AttachmentTexts(csState.recentMessagesData)
    /\ "[Hidden]" \notin AttachmentTexts(csStore)

\* the registered actions a label matches at the stage that resolves it: by
\* name when some name matches, by a simile otherwise
Candidates(label) ==
    LET norm == Normalize(label)
        byName == {i \in 1..Len(actions) : NameMatch(actions[i], norm)}
        bySimile == {i \in 1..Len(actions) : SimileHit(actions[i], norm)}
    IN IF byName # {} THEN byName ELSE bySimile

\* where the constructor took an action from: 1 for a character plugin, 2
\* for a plugin of the options, 3 for the actions of the options
SourceRank(a) ==
    CASE a.name = CharacterAction(TRUE).name -> 1
      [] a.name = PluginAction.name -> 2
      [] OTHER -> 3

\* the handlers processActions started for response r
Started(r) == {j \in 1..Len(paLog) : paLog[j].resp = r}

\* the handler started for response r is the one of the candidate that was
\* registered first
FirstRegisteredRan(r) ==
    /\ Cardinality(Started(r)) = 1
    /\ \A j \in Started(r), i \in Candidates(paResponses[r]) :
           /\ paLog[j].act \in Candidates(paResponses[r])
           /\ paLog[j].act <= i
           /\ SourceRank(actions[paLog[j].act]) <= SourceRank(actions[i])

\* the responses the loop is past whose label matches several actions
Ambiguous ==
    {r \in 1..Len(paResponses) :
         /\ r < paIdx
         /\ paResponses[r] # <<>>
         /\ Cardinality(Candidates(paResponses[r])) >= 2}

\* C36 as stated: when several registered actions match a label at the
\* same stage, processActions executes exactly one of them, the one
\* registered first (character plugins, then option plugins, then option
\* actions).
C36_Original == \A r \in Ambiguous : FirstRegisteredRan(r)

\* C36: when several registered actions match a label at the same stage,
\* the candidate registered first (character plugins, then option plugins,
\* then option actions) is the only one considered: its handler is the one
\* handler started for the response, or, if it has no handler, none is.
C36_FirstRegisteredWins ==
    \A r \in Ambiguous :
        LET first == CHOOSE i \in Candidates(paResponses[r]) :
                         \A h \in Candidates(paResponses[r]) : i <= h
        IN IF actions[first].hasHandler
           THEN FirstRegisteredRan(r)
           ELSE Started(r) = {}

\* three actions, one from each place, match a label by a simile only, and
\* the handler of the character plugin's action was started for it
C36_Witness ==
    /\ Len(actions) = 3
    /\ \E r \in Ambiguous :
           /\ Cardinality(Candidates(paResponses[r])) = 3
           /\ \A i \in 1..3 : ~NameMatch(actions[i], Normalize(paResponses[r]))
           /\ \E j \in Started(r) : actions[paLog[j].act] = CharacterAction(TRUE)

\* the files of the batch whose createMemory call for the id is in flight
Creating(id) ==
    {f \in DOMAIN dFile : dFile[f].pc = "create" /\ DirItem(f).id = id}

\* C40: when files of one directory batch have identical content, that
\* content is persisted at most once: under every interleaving createMemory
\* is called at most once per derived knowledge id.
C40_ContentPersistedOnce ==
    \A id \in KnowledgeIds : kSetDone[id] + Cardinality(Creating(id)) <= 1

====
